---- MODULE Spec2Model ----
(***************************************************************************)
(* Model of the identifier reconciliation (src/src/match_ids.py) and of    *)
(* the relationship graph builder (src/src/lib/graph.py) of xarxa.         *)
(*                                                                         *)
(* A Python str is a sequence of one-character strings, so that            *)
(* containment, split and iteration over a str are computed, not assumed.  *)
(* Python's None is the one-element sequence <<"None">>, which no str      *)
(* equals.                                                                 *)
(***************************************************************************)
EXTENDS Integers, Sequences, FiniteSets, TLC

None == <<"None">>

\* Python truthiness of an Optional[str]: None and '' are false.
Truthy(s) == s # None /\ s # <<>>

Range(f) == {f[i] : i \in DOMAIN f}

RECURSIVE SplitRec(_, _, _)
SplitRec(s, sep, cur) ==
    IF s = <<>> THEN <<cur>>
    ELSE IF Head(s) = sep THEN <<cur>> \o SplitRec(Tail(s), sep, <<>>)
    ELSE SplitRec(Tail(s), sep, Append(cur, Head(s)))

\* str.split(sep) for a one-character separator.
Split(s, sep) == SplitRec(s, sep, <<>>)

\* Python's `sub in s` on two strs.
Contains(sub, s) ==
    \E i \in 0..(Len(s) - Len(sub)) : SubSeq(s, i + 1, i + Len(sub)) = sub

\* Python's `x in list`.
InList(x, l) == \E i \in DOMAIN l : l[i] = x

(***************************************************************************)
(* dict: insertion-ordered sequence of [k, v] entries.                     *)
(***************************************************************************)
DictHas(d, k) == \E i \in DOMAIN d : d[i].k = k

DictIndex(d, k) == CHOOSE i \in DOMAIN d : d[i].k = k

\* d[k] for a key that is present.
DictAt(d, k) == d[DictIndex(d, k)].v

\* d.get(k, dflt)
DictGet(d, k, dflt) == IF DictHas(d, k) THEN DictAt(d, k) ELSE dflt

\* d[k] = v: an existing key keeps its place, a new key goes last.
DictSet(d, k, v) ==
    IF DictHas(d, k) THEN [d EXCEPT ![DictIndex(d, k)].v = v]
    ELSE Append(d, [k |-> k, v |-> v])

DictKeys(d) == [i \in DOMAIN d |-> d[i].k]

(***************************************************************************)
(* lib/generic_row.py: parse_tsv.  A raw row is the sequence of cells      *)
(* csv.reader yields for one line.                                         *)
(***************************************************************************)
NULL == <<"N", "U", "L", "L">>

\* A parsed value: kind "none" (None), "str", "list", or "unset" (the
\* attribute was never assigned).
NoneCell == [kind |-> "none", str |-> None, items |-> <<>>]

StrCell(s) == [kind |-> "str", str |-> s, items |-> <<>>]

ListCell(l) == [kind |-> "list", str |-> None, items |-> l]

UnsetCell == [kind |-> "unset", str |-> None, items |-> <<>>]

\* An Optional[str] as a parsed value.
Opt(s) == IF s = None THEN NoneCell ELSE StrCell(s)

ListContent(value) == SelectSeq(Split(value, ";"), LAMBDA v : v # <<>> /\ v # NULL)

ParseValue(value, target_type) ==
    IF value = None \/ value = <<>> \/ value = NULL THEN NoneCell
    ELSE IF target_type = "str" THEN StrCell(value)
    ELSE IF ListContent(value) # <<>> THEN ListCell(ListContent(value))
    ELSE UnsetCell

\* csv.DictReader: a short row is padded with None (restval), a long row
\* gets one extra key (restkey), an empty line is not yielded at all.
DictReaderLen(cells, schema) ==
    IF Len(cells) > Len(schema) THEN Len(schema) + 1 ELSE Len(schema)

DictReaderValue(cells, j) == IF j <= Len(cells) THEN cells[j] ELSE None

ParseRow(cells, schema) ==
    [j \in 1..Len(schema) |-> ParseValue(DictReaderValue(cells, j), schema[j])]

parse_tsv(tsv_content, schema) ==
    LET kept == SelectSeq(tsv_content,
                    LAMBDA cells : cells # <<>> /\ DictReaderLen(cells, schema) = Len(schema))
    IN  [r \in DOMAIN kept |-> ParseRow(kept[r], schema)]

\* `row.attr or []` for a list attribute.
OrEmpty(cell) == IF cell.kind = "list" THEN cell.items ELSE <<>>

\* `x.split(".")[0] if x else None`
StripVersion(cell) == IF cell.kind = "str" THEN Split(cell.str, ".")[1] ELSE None


\* Iterating a dict value: a list yields its items, a str its characters.
Items(cell) ==
    IF cell.kind = "list" THEN cell.items
    ELSE [j \in 1..Len(cell.str) |-> <<cell.str[j]>>]

(***************************************************************************)
(* State of one run of match_ids.main.                                     *)
(***************************************************************************)
VARIABLES
    uniprot_ids, refseq_ids, kegg_ids,      \* the three inputs, as read
    pc, cursor, generic_rows, todo,         \* control: place, loop index, parsed rows, set-loop rest
    raised,                                 \* "" or the exception that ended the run
    uniprot_to_refseq_protein_id, uniprot_to_locus_tag, uniprot_to_kegg_accession,
    refseq_locus_tag_to_refseq_protein_id, refseq_locus_tag_to_locus_tag,
    locus_tag_to_kegg_accession, locus_tag_set, kegg_accession_set,
    locus_tag_to_refseq_locus_tag, records,
    used_uniprot_accessions, used_refseq_locus_tags, used_locus_tags, used_kegg_accessions,
    stdout

inputs == <<uniprot_ids, refseq_ids, kegg_ids>>

control == <<pc, cursor, generic_rows, todo, raised>>

uniprot_maps == <<uniprot_to_refseq_protein_id, uniprot_to_locus_tag, uniprot_to_kegg_accession>>

refseq_maps == <<refseq_locus_tag_to_refseq_protein_id, refseq_locus_tag_to_locus_tag>>

kegg_maps == <<locus_tag_to_kegg_accession, locus_tag_set, kegg_accession_set>>

used_sets == <<used_uniprot_accessions, used_refseq_locus_tags, used_locus_tags, used_kegg_accessions>>

id_map_locals == <<locus_tag_to_refseq_locus_tag, records, used_sets>>

match_vars == <<inputs, control, uniprot_maps, refseq_maps, kegg_maps, id_map_locals, stdout>>

\* State of one call of run_build_graph and of one call of
\* adjust_weights_with_expression_data (lib/graph.py), and of the store they read.
VARIABLES
    id_mapper,              \* rows of the id store, in the order a query returns them
    kegg_relations,         \* rows [source, target] of the directed relation source
    string_interactions,    \* rows [protein_a, protein_b, combined_score]
    uniprot_gene_name,      \* dict: UniProt accession -> gene name
    experimental_condition, \* rows [name, experimental_condition_type] of the condition registry
    transcriptomics,        \* rows [experimental_id, condition_a, condition_b, log2_fold_change]
    id_list, depth, string_threshold,
    experiment_type, condition_a, condition_b,
    relationships, query_nodes, neighborhood_level

store == <<id_mapper, kegg_relations, string_interactions, uniprot_gene_name,
           experimental_condition, transcriptomics>>

graph_args == <<id_list, depth, string_threshold, experiment_type, condition_a, condition_b>>

graph_locals == <<relationships, query_nodes, neighborhood_level>>

graph_vars == <<store, graph_args, graph_locals>>

vars == <<match_vars, graph_vars>>

(***************************************************************************)
(* match_ids.py: the three stream parsers.                                 *)
(***************************************************************************)
UniprotSchema == <<"str", "list", "list", "list", "str">>

RefseqSchema == <<"str", "list", "str">>

KeggSchema == <<"str">>

UniprotGenericRow(r) ==
    [uniprot_accession |-> r[1], locus_tag |-> r[2], orf_name |-> r[3],
     kegg_accession |-> r[4], refseq_protein_id |-> r[5]]

RefseqGenericRow(r) ==
    [refseq_locus_tag |-> r[1], locus_tag |-> r[2], refseq_protein_id |-> r[3]]

KeggGenericRow(r) == [kegg_accession |-> r[1]]

RECURSIVE AppendNew(_, _)
\* for name in names: if name not in l: l.append(name)
AppendNew(l, names) ==
    IF names = <<>> THEN l
    ELSE AppendNew(IF InList(Head(names), l) THEN l ELSE Append(l, Head(names)), Tail(names))

\* parse_uniprot's first loop: ORF names count as locus tags, the protein id
\* loses its version.  (With no locus tag the ORF list itself becomes the
\* locus-tag list, so nothing is appended to it.)
NormaliseUniprotRow(row) ==
    [row EXCEPT
        !.locus_tag = ListCell(IF row.locus_tag.kind # "list" THEN OrEmpty(row.orf_name)
                               ELSE AppendNew(row.locus_tag.items, OrEmpty(row.orf_name))),
        !.refseq_protein_id = Opt(StripVersion(row.refseq_protein_id))]

\* The last accession that contains the tag, or None.
MatchedKeggLast(lt, kegg_accessions) ==
    IF \E j \in DOMAIN kegg_accessions : Contains(lt, kegg_accessions[j])
    THEN kegg_accessions[CHOOSE j \in DOMAIN kegg_accessions :
            /\ Contains(lt, kegg_accessions[j])
            /\ \A h \in (j + 1)..Len(kegg_accessions) : ~Contains(lt, kegg_accessions[h])]
    ELSE None

\* `next((kegg for kegg in kegg_accessions if lt in kegg), None)`
MatchedKegg(lt, kegg_accessions) ==
    IF \E j \in DOMAIN kegg_accessions : Contains(lt, kegg_accessions[j])
    THEN kegg_accessions[CHOOSE j \in DOMAIN kegg_accessions :
            /\ Contains(lt, kegg_accessions[j])
            /\ \A h \in 1..(j - 1) : ~Contains(lt, kegg_accessions[h])]
    ELSE None

pair_lt_kegg(locus_tags, kegg_accessions) ==
    LET first_pass == [j \in DOMAIN locus_tags |->
                          <<locus_tags[j], MatchedKegg(locus_tags[j], kegg_accessions)>>]
        paired_keggs == {first_pass[j][2] : j \in DOMAIN first_pass} \ {None}
        unpaired_kegg == SelectSeq(kegg_accessions, LAMBDA kegg : kegg \notin paired_keggs)
    IN  first_pass \o [j \in DOMAIN unpaired_kegg |-> <<None, unpaired_kegg[j]>>]

RECURSIVE BindPairs(_, _)
\* parse_uniprot's loop over the pairs, on locus_tag_to_kegg_accession.
BindPairs(map, pairs) ==
    IF pairs = <<>> THEN map
    ELSE LET ltag == Head(pairs)[1]
             kacc == Head(pairs)[2]
             m1 == IF Truthy(ltag) THEN DictSet(map, ltag, kacc) ELSE map
             m2 == IF Truthy(kacc) THEN DictSet(m1, kacc, ltag) ELSE m1
         IN  BindPairs(m2, Tail(pairs))

PairedTags(pairs) == {pairs[j][1] : j \in DOMAIN pairs} \ {None, <<>>}

PairedKeggs(pairs) == {pairs[j][2] : j \in DOMAIN pairs} \ {None, <<>>}


\* The run ends with an exception (or, with "", by sys.exit(0)).
Exit(exception) ==
    /\ pc' = "exit"
    /\ raised' = exception

\* parse_uniprot, up to its second loop: parse_tsv and the normalising loop,
\* which reads row.locus_tag and row.orf_name of every row.
ReadUniprot ==
    /\ pc = "parse_uniprot"
    /\ LET rows == parse_tsv(uniprot_ids, UniprotSchema)
           parsed == [r \in DOMAIN rows |-> UniprotGenericRow(rows[r])]
       IN  IF \E r \in DOMAIN parsed :
                  parsed[r].locus_tag.kind = "unset" \/ parsed[r].orf_name.kind = "unset"
           THEN Exit("AttributeError") /\ UNCHANGED <<generic_rows, cursor>>
           ELSE /\ generic_rows' = [r \in DOMAIN parsed |-> NormaliseUniprotRow(parsed[r])]
                /\ cursor' = 1
                /\ pc' = IF parsed = <<>> THEN "parse_refseq" ELSE "uniprot_row"
                /\ UNCHANGED raised
    /\ UNCHANGED <<graph_vars, inputs, todo, uniprot_maps, refseq_maps, kegg_maps, id_map_locals, stdout>>

\* ParseUniprotRow without the test of lines 234-237: a second row of an
\* accession replaces what the first one stored.
ParseUniprotRowUnchecked ==
    /\ pc = "uniprot_row"
    /\ LET row == generic_rows[cursor]
           uniprot_accession == row.uniprot_accession.str
           locus_tags == OrEmpty(row.locus_tag)
           kegg_accessions == OrEmpty(row.kegg_accession)
           refseq_protein_id == row.refseq_protein_id.str
           paired_lt_kegg == pair_lt_kegg(locus_tags, kegg_accessions)
       IN  IF row.kegg_accession.kind = "unset"
           THEN Exit("AttributeError") /\ UNCHANGED <<cursor, uniprot_maps, kegg_maps>>
           ELSE /\ uniprot_to_refseq_protein_id' =
                       DictSet(uniprot_to_refseq_protein_id, uniprot_accession, refseq_protein_id)
                /\ uniprot_to_locus_tag' = DictSet(uniprot_to_locus_tag, uniprot_accession, locus_tags)
                /\ uniprot_to_kegg_accession' =
                       DictSet(uniprot_to_kegg_accession, uniprot_accession, kegg_accessions)
                /\ locus_tag_to_kegg_accession' = BindPairs(locus_tag_to_kegg_accession, paired_lt_kegg)
                /\ locus_tag_set' = locus_tag_set \cup PairedTags(paired_lt_kegg)
                /\ kegg_accession_set' = kegg_accession_set \cup PairedKeggs(paired_lt_kegg)
                /\ cursor' = cursor + 1
                /\ pc' = IF cursor = Len(generic_rows) THEN "parse_refseq" ELSE pc
                /\ UNCHANGED raised
    /\ UNCHANGED <<graph_vars, inputs, generic_rows, todo, refseq_maps, id_map_locals, stdout>>

\* One iteration of parse_uniprot's second loop.
ParseUniprotRow ==
    /\ pc = "uniprot_row"
    /\ LET row == generic_rows[cursor]
           uniprot_accession == row.uniprot_accession.str
           locus_tags == OrEmpty(row.locus_tag)
           kegg_accessions == OrEmpty(row.kegg_accession)
           refseq_protein_id == row.refseq_protein_id.str
           paired_lt_kegg == pair_lt_kegg(locus_tags, kegg_accessions)
       IN  IF row.kegg_accession.kind = "unset"
           THEN Exit("AttributeError") /\ UNCHANGED <<cursor, uniprot_maps, kegg_maps>>
           ELSE IF DictHas(uniprot_to_refseq_protein_id, uniprot_accession)
           THEN Exit("IdConflictError") /\ UNCHANGED <<cursor, uniprot_maps, kegg_maps>>
           ELSE /\ uniprot_to_refseq_protein_id' =
                       DictSet(uniprot_to_refseq_protein_id, uniprot_accession, refseq_protein_id)
                /\ uniprot_to_locus_tag' = DictSet(uniprot_to_locus_tag, uniprot_accession, locus_tags)
                /\ uniprot_to_kegg_accession' =
                       DictSet(uniprot_to_kegg_accession, uniprot_accession, kegg_accessions)
                /\ locus_tag_to_kegg_accession' = BindPairs(locus_tag_to_kegg_accession, paired_lt_kegg)
                /\ locus_tag_set' = locus_tag_set \cup PairedTags(paired_lt_kegg)
                /\ kegg_accession_set' = kegg_accession_set \cup PairedKeggs(paired_lt_kegg)
                /\ cursor' = cursor + 1
                /\ pc' = IF cursor = Len(generic_rows) THEN "parse_refseq" ELSE pc
                /\ UNCHANGED raised
    /\ UNCHANGED <<graph_vars, inputs, generic_rows, todo, refseq_maps, id_map_locals, stdout>>

\* parse_refseq, up to its loop: parse_tsv.
ReadRefseq ==
    /\ pc = "parse_refseq"
    /\ LET rows == parse_tsv(refseq_ids, RefseqSchema)
       IN  /\ generic_rows' = [r \in DOMAIN rows |-> RefseqGenericRow(rows[r])]
           /\ cursor' = 1
           /\ pc' = IF rows = <<>> THEN "parse_kegg" ELSE "refseq_row"
    /\ UNCHANGED <<graph_vars, inputs, todo, raised, uniprot_maps, refseq_maps, kegg_maps, id_map_locals, stdout>>

RECURSIVE BindLocusTags(_, _, _)
\* for lt in locus_tags: refseq_locus_tag_to_locus_tag[lt] = refseq_locus_tag
BindLocusTags(map, locus_tags, refseq_locus_tag) ==
    IF locus_tags = <<>> THEN map
    ELSE BindLocusTags(DictSet(map, Head(locus_tags), Opt(refseq_locus_tag)),
                       Tail(locus_tags), refseq_locus_tag)

\* One iteration of parse_refseq's loop.
ParseRefseqRow ==
    /\ pc = "refseq_row"
    /\ LET row == generic_rows[cursor]
           refseq_locus_tag == row.refseq_locus_tag.str
           locus_tags == OrEmpty(row.locus_tag)
           refseq_protein_id == StripVersion(row.refseq_protein_id)
       IN  IF row.locus_tag.kind = "unset"
           THEN Exit("AttributeError") /\ UNCHANGED <<cursor, refseq_maps, locus_tag_set>>
           ELSE IF DictHas(refseq_locus_tag_to_refseq_protein_id, refseq_locus_tag)
           THEN Exit("IdConflictError") /\ UNCHANGED <<cursor, refseq_maps, locus_tag_set>>
           ELSE /\ refseq_locus_tag_to_refseq_protein_id' =
                       DictSet(refseq_locus_tag_to_refseq_protein_id, refseq_locus_tag, refseq_protein_id)
                /\ refseq_locus_tag_to_locus_tag' =
                       BindLocusTags(DictSet(refseq_locus_tag_to_locus_tag, refseq_locus_tag,
                                             ListCell(locus_tags)),
                                     locus_tags, refseq_locus_tag)
                /\ locus_tag_set' = locus_tag_set \cup Range(locus_tags)
                /\ cursor' = cursor + 1
                /\ pc' = IF cursor = Len(generic_rows) THEN "parse_kegg" ELSE pc
                /\ UNCHANGED raised
    /\ UNCHANGED <<graph_vars, inputs, generic_rows, todo, uniprot_maps, locus_tag_to_kegg_accession,
                   kegg_accession_set, id_map_locals, stdout>>

\* parse_kegg, up to its loop: parse_tsv.
ReadKegg ==
    /\ pc = "parse_kegg"
    /\ LET rows == parse_tsv(kegg_ids, KeggSchema)
       IN  /\ generic_rows' = [r \in DOMAIN rows |-> KeggGenericRow(rows[r])]
           /\ cursor' = 1
           /\ pc' = IF rows = <<>> THEN "generate_id_map" ELSE "kegg_row"
    /\ UNCHANGED <<graph_vars, inputs, todo, raised, uniprot_maps, refseq_maps, kegg_maps, id_map_locals, stdout>>

\* One iteration of parse_kegg's loop.  The locus tag is the text between
\* the first and the second colon of the accession.
ParseKeggRow ==
    /\ pc = "kegg_row"
    /\ LET row == generic_rows[cursor]
           kegg_accession == row.kegg_accession.str
           pieces == Split(kegg_accession, ":")
           locus_tag == pieces[2]
           known_kegg == DictHas(locus_tag_to_kegg_accession, kegg_accession)
           map1 == IF known_kegg
                   THEN DictSet(locus_tag_to_kegg_accession, kegg_accession, locus_tag)
                   ELSE locus_tag_to_kegg_accession
           known_tag == DictHas(map1, locus_tag)
       IN  IF row.kegg_accession.kind # "str"
           THEN Exit("AttributeError") /\ UNCHANGED <<cursor, kegg_maps>>
           ELSE IF Len(pieces) < 2
           THEN Exit("IndexError") /\ UNCHANGED <<cursor, kegg_maps>>
           ELSE IF known_kegg /\ DictAt(locus_tag_to_kegg_accession, kegg_accession) # locus_tag
           THEN Exit("IdConflictError") /\ UNCHANGED <<cursor, kegg_maps>>
           ELSE IF known_tag /\ DictAt(map1, locus_tag) # kegg_accession
           THEN Exit("IdConflictError") /\ UNCHANGED <<cursor, kegg_maps>>
           ELSE /\ locus_tag_to_kegg_accession' =
                       IF known_tag THEN DictSet(map1, locus_tag, kegg_accession) ELSE map1
                /\ locus_tag_set' = IF known_kegg THEN locus_tag_set \cup {locus_tag} ELSE locus_tag_set
                /\ kegg_accession_set' =
                       IF known_tag THEN kegg_accession_set \cup {kegg_accession}
                       ELSE kegg_accession_set
                /\ cursor' = cursor + 1
                /\ pc' = IF cursor = Len(generic_rows) THEN "generate_id_map" ELSE pc
                /\ UNCHANGED raised
    /\ UNCHANGED <<graph_vars, inputs, generic_rows, todo, uniprot_maps, refseq_maps, id_map_locals, stdout>>


(***************************************************************************)
(* match_ids.py: generate_id_map and its four phases.                      *)
(***************************************************************************)
IdMasterRecord(ua, rlt, lt, kacc, pid) ==
    [uniprot_accession |-> ua, refseq_locus_tag |-> rlt, locus_tag |-> lt,
     kegg_accession |-> kacc, refseq_protein_id |-> pid]

RECURSIVE BindInverse(_, _, _)
\* for lt in lt_list: locus_tag_to_refseq_locus_tag[lt] = rs_lt
BindInverse(map, lt_list, rs_lt) ==
    IF lt_list = <<>> THEN map
    ELSE BindInverse(DictSet(map, Head(lt_list), rs_lt), Tail(lt_list), rs_lt)

RECURSIVE InverseOf(_, _)
\* The loop over refseq_locus_tag_to_locus_tag.items() that builds the
\* locus tag -> RefSeq locus tag dict, from the entries not yet visited.
InverseOf(map, entries) ==
    IF entries = <<>> THEN map
    ELSE InverseOf(BindInverse(map, Items(Head(entries).v), Head(entries).k), Tail(entries))

\* The locals of generate_id_map that the phases update, as one value; pid
\* is the phase's variable refseq_protein_id and err the exception raised.
Locals ==
    [records |-> records,
     used_uniprot_accessions |-> used_uniprot_accessions,
     used_refseq_locus_tags |-> used_refseq_locus_tags,
     used_locus_tags |-> used_locus_tags,
     used_kegg_accessions |-> used_kegg_accessions,
     pid |-> None, err |-> ""]

\* records.append(...) followed by the used_*.add(...) of the record's fields
\* (used_uniprot_accessions only where the code adds to it: mark_ua).
Emit(g, ua, mark_ua, rlt, lt, kacc, pid) ==
    [g EXCEPT
        !.records = Append(@, IdMasterRecord(ua, rlt, lt, kacc, pid)),
        !.used_uniprot_accessions = IF mark_ua THEN @ \cup {ua} ELSE @,
        !.used_refseq_locus_tags = @ \cup {rlt},
        !.used_locus_tags = @ \cup {lt},
        !.used_kegg_accessions = @ \cup {kacc}]

\* refseq_locus_tag_to_refseq_protein_id[k], which raises KeyError.
ProteinOf(rlt) == DictAt(refseq_locus_tag_to_refseq_protein_id, rlt)

Missing(rlt) == ~DictHas(refseq_locus_tag_to_refseq_protein_id, rlt)

\* Phase 1, one iteration of `for lt in locus_tags` (lines 511-566).
UniprotLocusTagStep(g, uniprot_accession, lt) ==
    LET kegg_accession == DictGet(locus_tag_to_kegg_accession, lt, None)
        refseq_locus_tag == DictGet(locus_tag_to_refseq_locus_tag, lt, None)
        differs == /\ Truthy(refseq_locus_tag)
                   /\ Truthy(ProteinOf(refseq_locus_tag))
                   /\ Truthy(g.pid)
                   /\ ProteinOf(refseq_locus_tag) # g.pid
        g1 == IF differs
              THEN Emit(g, None, FALSE, refseq_locus_tag, lt, kegg_accession,
                        ProteinOf(refseq_locus_tag))
              ELSE g
        rlt2 == IF differs THEN None ELSE refseq_locus_tag
        pid2 == IF ~Truthy(g.pid) /\ Truthy(rlt2)
                THEN DictGet(refseq_locus_tag_to_refseq_protein_id, rlt2, None)
                ELSE g.pid
    IN  IF g.err # "" THEN g
        ELSE IF Truthy(refseq_locus_tag) /\ Missing(refseq_locus_tag)
        THEN [g EXCEPT !.err = "KeyError"]
        ELSE Emit([g1 EXCEPT !.pid = pid2], uniprot_accession, TRUE, rlt2, lt, kegg_accession, pid2)

\* Phase 1, one iteration of `for kacc in kegg_accessions` (lines 570-615).
UniprotKeggStep(g, uniprot_accession, kacc) ==
    LET lt == DictGet(locus_tag_to_kegg_accession, kacc, None)
        refseq_locus_tag == DictGet(locus_tag_to_refseq_locus_tag, lt, None)
        pid1 == DictGet(refseq_locus_tag_to_refseq_protein_id, refseq_locus_tag, None)
        both == /\ Truthy(refseq_locus_tag)
                /\ Truthy(ProteinOf(refseq_locus_tag))
                /\ Truthy(pid1)
        g1 == IF both
              THEN [Emit(g, None, FALSE, refseq_locus_tag, lt, kacc, pid1)
                        EXCEPT !.used_kegg_accessions = @ \cup {kacc}]
              ELSE g
        rlt2 == IF both THEN None ELSE refseq_locus_tag
        pid2 == IF ~Truthy(pid1) /\ Truthy(rlt2)
                THEN DictGet(refseq_locus_tag_to_refseq_protein_id, rlt2, None)
                ELSE pid1
    IN  IF g.err # "" \/ kacc \in g.used_kegg_accessions THEN g
        ELSE IF Truthy(refseq_locus_tag) /\ Missing(refseq_locus_tag)
        THEN [g EXCEPT !.err = "KeyError"]
        ELSE Emit([g1 EXCEPT !.pid = pid2], uniprot_accession, TRUE, rlt2, lt, kacc, pid2)

RECURSIVE UniprotLocusTagLoop(_, _, _)
UniprotLocusTagLoop(g, uniprot_accession, locus_tags) ==
    IF locus_tags = <<>> THEN g
    ELSE UniprotLocusTagLoop(UniprotLocusTagStep(g, uniprot_accession, Head(locus_tags)),
                             uniprot_accession, Tail(locus_tags))

RECURSIVE UniprotKeggLoop(_, _, _)
UniprotKeggLoop(g, uniprot_accession, kegg_accessions) ==
    IF kegg_accessions = <<>> THEN g
    ELSE UniprotKeggLoop(UniprotKeggStep(g, uniprot_accession, Head(kegg_accessions)),
                         uniprot_accession, Tail(kegg_accessions))

\* Phase 1, one iteration of `for uniprot_accession in ...` (lines 489-615).
generate_records_from_uniprot(g, uniprot_accession) ==
    LET refseq_protein_id == DictAt(uniprot_to_refseq_protein_id, uniprot_accession)
        locus_tags == DictAt(uniprot_to_locus_tag, uniprot_accession)
        kegg_accessions == DictAt(uniprot_to_kegg_accession, uniprot_accession)
        g0 == [g EXCEPT !.pid = refseq_protein_id]
        g1 == IF Len(locus_tags) = 0 /\ Len(kegg_accessions) = 0
              THEN [g0 EXCEPT !.records =
                        Append(@, IdMasterRecord(uniprot_accession, None, None, None,
                                                 refseq_protein_id))]
              ELSE g0
    IN  UniprotKeggLoop(UniprotLocusTagLoop(g1, uniprot_accession, locus_tags),
                        uniprot_accession, kegg_accessions)


RECURSIVE RefseqLocusTagLoop(_, _, _, _)
\* Phase 2, `for lt in locus_tags` (lines 677-691).
RefseqLocusTagLoop(g, refseq_locus_tag, refseq_protein_id, locus_tags) ==
    IF locus_tags = <<>> THEN g
    ELSE RefseqLocusTagLoop(
            Emit(g, None, FALSE, refseq_locus_tag, Head(locus_tags),
                 DictGet(locus_tag_to_kegg_accession, Head(locus_tags), None), refseq_protein_id),
            refseq_locus_tag, refseq_protein_id, Tail(locus_tags))

\* Phase 2 without the test of used_refseq_locus_tags.
generate_records_from_refseqAll(g, refseq_locus_tag) ==
    LET refseq_protein_id == ProteinOf(refseq_locus_tag)
        locus_tags == Items(DictAt(refseq_locus_tag_to_locus_tag, refseq_locus_tag))
        g1 == IF Len(locus_tags) = 0
              THEN [g EXCEPT
                      !.records = Append(@, IdMasterRecord(None, refseq_locus_tag, None, None,
                                                           refseq_protein_id)),
                      !.used_refseq_locus_tags = @ \cup {refseq_locus_tag}]
              ELSE g
    IN  RefseqLocusTagLoop(g1, refseq_locus_tag, refseq_protein_id, locus_tags)

\* Phase 2, one iteration of `for refseq_locus_tag in ...` (lines 661-691).
generate_records_from_refseq(g, refseq_locus_tag) ==
    LET refseq_protein_id == ProteinOf(refseq_locus_tag)
        locus_tags == Items(DictAt(refseq_locus_tag_to_locus_tag, refseq_locus_tag))
        g1 == IF Len(locus_tags) = 0
              THEN [g EXCEPT
                      !.records = Append(@, IdMasterRecord(None, refseq_locus_tag, None, None,
                                                           refseq_protein_id)),
                      !.used_refseq_locus_tags = @ \cup {refseq_locus_tag}]
              ELSE g
    IN  IF refseq_locus_tag \in g.used_refseq_locus_tags THEN g
        ELSE RefseqLocusTagLoop(g1, refseq_locus_tag, refseq_protein_id, locus_tags)

\* `for k, v in uniprot_to_refseq_protein_id.items(): if v == x: uniprot_accession = k`
LastAccessionWith(x) ==
    LET d == uniprot_to_refseq_protein_id
        hits == {j \in DOMAIN d : d[j].v = x}
    IN  IF hits = {} THEN None
        ELSE d[CHOOSE j \in hits : \A h \in hits : h <= j].k

\* Phase 3, one iteration of `for kacc in kegg_accession_set` (lines 734-758).
generate_records_from_kegg(g, kacc) ==
    LET lt == DictAt(locus_tag_to_kegg_accession, kacc)
        refseq_locus_tag == DictGet(locus_tag_to_refseq_locus_tag, lt, None)
        refseq_protein_id == DictGet(refseq_locus_tag_to_refseq_protein_id, refseq_locus_tag, None)
        uniprot_accession == LastAccessionWith(kacc)
    IN  IF kacc \in g.used_kegg_accessions THEN g
        ELSE IF ~DictHas(locus_tag_to_kegg_accession, kacc) THEN [g EXCEPT !.err = "KeyError"]
        ELSE Emit(g, uniprot_accession, TRUE, refseq_locus_tag, lt, kacc, refseq_protein_id)

\* Phase 4 appending its record without adding to the used sets.
generate_records_from_locus_tagsUnmarked(g, lt) ==
    LET kacc == DictGet(locus_tag_to_kegg_accession, lt, None)
        refseq_locus_tag == DictGet(locus_tag_to_refseq_locus_tag, lt, None)
        refseq_protein_id == DictGet(refseq_locus_tag_to_refseq_protein_id, refseq_locus_tag, None)
        uniprot_accession == LastAccessionWith(refseq_protein_id)
    IN  IF lt \in g.used_locus_tags THEN g
        ELSE [g EXCEPT !.records = Append(@, IdMasterRecord(uniprot_accession, refseq_locus_tag,
                                                            lt, kacc, refseq_protein_id))]

\* Phase 4, one iteration of `for lt in locus_tag_set` (lines 801-822).
generate_records_from_locus_tags(g, lt) ==
    LET kacc == DictGet(locus_tag_to_kegg_accession, lt, None)
        refseq_locus_tag == DictGet(locus_tag_to_refseq_locus_tag, lt, None)
        refseq_protein_id == DictGet(refseq_locus_tag_to_refseq_protein_id, refseq_locus_tag, None)
        uniprot_accession == LastAccessionWith(refseq_protein_id)
    IN  IF lt \in g.used_locus_tags THEN g
        ELSE Emit(g, uniprot_accession, TRUE, refseq_locus_tag, lt, kacc, refseq_protein_id)

\* `any([i for i in collection if i not in used])`: some unused member is truthy.
AnyUnused(collection, used) == \E x \in collection \ used : Truthy(x)

\* The three completeness checks that end generate_id_map (lines 429-439).
Incomplete ==
    \/ AnyUnused(Range(DictKeys(refseq_locus_tag_to_refseq_protein_id)), used_refseq_locus_tags)
    \/ AnyUnused(locus_tag_set, used_locus_tags)
    \/ AnyUnused(kegg_accession_set, used_kegg_accessions)

\* Assignment of the updated locals.
Store(g) ==
    /\ records' = g.records
    /\ used_uniprot_accessions' = g.used_uniprot_accessions
    /\ used_refseq_locus_tags' = g.used_refseq_locus_tags
    /\ used_locus_tags' = g.used_locus_tags
    /\ used_kegg_accessions' = g.used_kegg_accessions

\* generate_id_map, lines 378-390: the fresh locals and the inverse dict.
\* Iterating a value that is None raises TypeError.
BuildInverse ==
    /\ pc = "generate_id_map"
    /\ IF \E j \in DOMAIN refseq_locus_tag_to_locus_tag :
              refseq_locus_tag_to_locus_tag[j].v.kind = "none"
       THEN Exit("TypeError") /\ UNCHANGED <<cursor, locus_tag_to_refseq_locus_tag>>
       ELSE /\ locus_tag_to_refseq_locus_tag' = InverseOf(<<>>, refseq_locus_tag_to_locus_tag)
            /\ cursor' = 1
            /\ pc' = "from_uniprot"
            /\ UNCHANGED raised
    /\ UNCHANGED <<graph_vars, inputs, generic_rows, todo, uniprot_maps, refseq_maps, kegg_maps,
                   records, used_sets, stdout>>

\* FromUniprot printing each record as phase 1 generates it, before the
\* later phases and the completeness checks have run.
FromUniprotPrinting ==
    /\ pc = "from_uniprot"
    /\ IF cursor > Len(uniprot_to_refseq_protein_id)
       THEN /\ pc' = "from_refseq"
            /\ cursor' = 1
            /\ UNCHANGED <<raised, records, used_sets, stdout>>
       ELSE LET g == generate_records_from_uniprot(Locals, uniprot_to_refseq_protein_id[cursor].k)
            IN  IF g.err # ""
                THEN Exit(g.err) /\ UNCHANGED <<cursor, records, used_sets, stdout>>
                ELSE Store(g) /\ stdout' = g.records /\ cursor' = cursor + 1 /\ UNCHANGED <<pc, raised>>
    /\ UNCHANGED <<graph_vars, inputs, generic_rows, todo, uniprot_maps, refseq_maps, kegg_maps,
                   locus_tag_to_refseq_locus_tag>>

\* Phase 1: the next UniProt accession, or on to phase 2.
FromUniprot ==
    /\ pc = "from_uniprot"
    /\ IF cursor > Len(uniprot_to_refseq_protein_id)
       THEN /\ pc' = "from_refseq"
            /\ cursor' = 1
            /\ UNCHANGED <<raised, records, used_sets>>
       ELSE LET g == generate_records_from_uniprot(Locals, uniprot_to_refseq_protein_id[cursor].k)
            IN  IF g.err # ""
                THEN Exit(g.err) /\ UNCHANGED <<cursor, records, used_sets>>
                ELSE Store(g) /\ cursor' = cursor + 1 /\ UNCHANGED <<pc, raised>>
    /\ UNCHANGED <<graph_vars, inputs, generic_rows, todo, uniprot_maps, refseq_maps, kegg_maps,
                   locus_tag_to_refseq_locus_tag, stdout>>

\* Phase 2: the next RefSeq locus tag, or on to phase 3.
FromRefseq ==
    /\ pc = "from_refseq"
    /\ IF cursor > Len(refseq_locus_tag_to_refseq_protein_id)
       THEN /\ pc' = "from_kegg"
            /\ todo' = kegg_accession_set
            /\ UNCHANGED <<cursor, records, used_sets>>
       ELSE /\ Store(generate_records_from_refseq(Locals,
                        refseq_locus_tag_to_refseq_protein_id[cursor].k))
            /\ cursor' = cursor + 1
            /\ UNCHANGED <<pc, todo>>
    /\ UNCHANGED <<graph_vars, inputs, generic_rows, raised, uniprot_maps, refseq_maps, kegg_maps,
                   locus_tag_to_refseq_locus_tag, stdout>>

\* Phase 3: some KEGG accession of the set not yet visited (a set has no
\* order of iteration), or on to phase 4.
FromKegg ==
    /\ pc = "from_kegg"
    /\ IF todo = {}
       THEN /\ pc' = "from_locus_tags"
            /\ todo' = locus_tag_set
            /\ UNCHANGED <<raised, records, used_sets>>
       ELSE \E kacc \in todo :
                LET g == generate_records_from_kegg(Locals, kacc)
                IN  IF g.err # ""
                    THEN Exit(g.err) /\ UNCHANGED <<todo, records, used_sets>>
                    ELSE Store(g) /\ todo' = todo \ {kacc} /\ UNCHANGED <<pc, raised>>
    /\ UNCHANGED <<graph_vars, inputs, cursor, generic_rows, uniprot_maps, refseq_maps, kegg_maps,
                   locus_tag_to_refseq_locus_tag, stdout>>

\* Phase 4: some locus tag of the set not yet visited; after the last one the
\* completeness checks, whose IdConflictError main turns into sys.exit(1).
FromLocusTags ==
    /\ pc = "from_locus_tags"
    /\ IF todo # {}
       THEN \E lt \in todo :
                /\ Store(generate_records_from_locus_tags(Locals, lt))
                /\ todo' = todo \ {lt}
                /\ UNCHANGED <<pc, raised, cursor>>
       ELSE /\ IF Incomplete
               THEN Exit("IdConflictError")
               ELSE pc' = (IF records = <<>> THEN "exit" ELSE "write") /\ UNCHANGED raised
            /\ cursor' = 1
            /\ UNCHANGED <<todo, records, used_sets>>
    /\ UNCHANGED <<graph_vars, inputs, generic_rows, uniprot_maps, refseq_maps, kegg_maps,
                   locus_tag_to_refseq_locus_tag, stdout>>

\* main, lines 861-869: print(record), then sys.exit(0) after the last one.
WriteRecord ==
    /\ pc = "write"
    /\ stdout' = Append(stdout, records[cursor])
    /\ cursor' = cursor + 1
    /\ pc' = IF cursor = Len(records) THEN "exit" ELSE pc
    /\ UNCHANGED <<graph_vars, inputs, generic_rows, todo, raised, uniprot_maps, refseq_maps, kegg_maps,
                   id_map_locals>>

\* main, lines 864-867: the reader of stdout went away; sys.exit(1).
BrokenPipe ==
    /\ pc = "write"
    /\ Exit("BrokenPipeError")
    /\ UNCHANGED <<graph_vars, inputs, cursor, generic_rows, todo, uniprot_maps, refseq_maps, kegg_maps,
                   id_map_locals, stdout>>


(***************************************************************************)
(* lib/graph.py and the store lookups it uses.                             *)
(***************************************************************************)
\* lib/table_id_mapper.py, map_id: the rows with the id in any of the five columns.
map_id(id) ==
    SelectSeq(id_mapper, LAMBDA r :
        \/ r.uniprot_accession = id
        \/ r.refseq_locus_tag = id
        \/ r.locus_tag = id
        \/ r.kegg_accession = id
        \/ r.refseq_protein_id = id)

\* lib/table_kegg_relations.py, is_protein.
is_protein(kegg_accession) ==
    Cardinality({j \in DOMAIN id_mapper : id_mapper[j].kegg_accession = kegg_accession}) > 0

\* lib/table_kegg_relations.py, get_kegg_targets.
get_kegg_targets(kegg_accession) ==
    LET results == SelectSeq(kegg_relations, LAMBDA r : r.source = kegg_accession)
        targets == [j \in DOMAIN results |-> results[j].target]
    IN  SelectSeq(targets, is_protein)

\* The lookup with `combined_score >= %s` in both queries.
get_string_targetsInclusive(refseq_locus_tag, threshold) ==
    LET rows_a == SelectSeq(string_interactions, LAMBDA r :
                      r.protein_a = refseq_locus_tag /\ r.combined_score >= threshold)
        rows_b == SelectSeq(string_interactions, LAMBDA r :
                      r.protein_b = refseq_locus_tag /\ r.combined_score >= threshold)
    IN  [j \in DOMAIN rows_a |-> rows_a[j].protein_b]
            \o [j \in DOMAIN rows_b |-> rows_b[j].protein_a]

\* lib/table_string_interactions.py, get_string_targets: the partners found
\* with the tag as protein_a, then those found with it as protein_b.
get_string_targets(refseq_locus_tag, threshold) ==
    LET rows_a == SelectSeq(string_interactions, LAMBDA r :
                      r.protein_a = refseq_locus_tag /\ r.combined_score > threshold)
        rows_b == SelectSeq(string_interactions, LAMBDA r :
                      r.protein_b = refseq_locus_tag /\ r.combined_score > threshold)
    IN  [j \in DOMAIN rows_a |-> rows_a[j].protein_b]
            \o [j \in DOMAIN rows_b |-> rows_b[j].protein_a]

\* lib/table_uniprot.py, get_gene_name: the display name stored for an accession.
get_gene_name(uniprot_accession) == DictGet(uniprot_gene_name, uniprot_accession, None)

\* An Optional[float]: None, or a number.
NoWeight == [is_none |-> TRUE, value |-> 0]

Node ==
    [uniprot_accession |-> None, refseq_locus_tag |-> <<>>, locus_tag |-> <<>>,
     kegg_accession |-> <<>>, gene_name |-> None, weight |-> NoWeight]

\* "sep".join([gene_name, x]) when the node has a gene name, else x.
Named(node, sep, x) == IF Truthy(node.gene_name) THEN node.gene_name \o <<sep>> \o x ELSE x

\* Node.id
NodeId(node) ==
    IF node.locus_tag # <<>> THEN Named(node, ";", node.locus_tag[1])
    ELSE IF node.refseq_locus_tag # <<>> THEN Named(node, ":", node.refseq_locus_tag[1])
    ELSE IF Truthy(node.uniprot_accession) THEN Named(node, ";", node.uniprot_accession)
    ELSE NULL

has_no_ids(node) ==
    /\ ~Truthy(node.uniprot_accession)
    /\ node.refseq_locus_tag = <<>>
    /\ node.locus_tag = <<>>
    /\ node.kegg_accession = <<>>

\* `if x: l.append(x)`
AppendIdAlways(l, x) == IF Truthy(x) THEN Append(l, x) ELSE l

\* `if x: if x not in l: l.append(x)`
AppendId(l, x) == IF Truthy(x) /\ ~InList(x, l) THEN Append(l, x) ELSE l

RECURSIVE MergeRows(_, _)
\* build_node's loop over the rows of map_id; b is [node, err].
MergeRows(b, rows) ==
    IF rows = <<>> \/ b.err # "" THEN b
    ELSE LET r == Head(rows)
             n == b.node
         IN  IF /\ Truthy(r.uniprot_accession)
                /\ Truthy(n.uniprot_accession)
                /\ n.uniprot_accession # r.uniprot_accession
             THEN [b EXCEPT !.err = "ValueError"]
             ELSE MergeRows(
                    [b EXCEPT !.node =
                        [n EXCEPT
                            !.uniprot_accession =
                                IF Truthy(r.uniprot_accession) THEN r.uniprot_accession ELSE @,
                            !.refseq_locus_tag = AppendId(@, r.refseq_locus_tag),
                            !.locus_tag = AppendId(@, r.locus_tag),
                            !.kegg_accession = AppendId(@, r.kegg_accession)]],
                    Tail(rows))

\* build_node: [node, err, found]; found is false where the code returns None.
build_node(id) ==
    LET b == MergeRows([node |-> Node, err |-> ""], map_id(id))
        named == IF Truthy(b.node.uniprot_accession)
                 THEN [b.node EXCEPT !.gene_name = get_gene_name(b.node.uniprot_accession)]
                 ELSE b.node
    IN  [node |-> named, err |-> b.err, found |-> b.err = "" /\ ~has_no_ids(named)]

\* A Relationship whose level is not recorded.
RelationshipLevelZero(source_node, target_node, directed, source, level) ==
    [source_node |-> source_node, target_node |-> target_node, interaction |-> "pp",
     directed |-> directed, source |-> source, neighborhood_level |-> 0, weight |-> NoWeight]

Relationship(source_node, target_node, directed, source, level) ==
    [source_node |-> source_node, target_node |-> target_node, interaction |-> "pp",
     directed |-> directed, source |-> source, neighborhood_level |-> level, weight |-> NoWeight]

\* Equality of all the fields, as a dataclass without __eq__ and __hash__ of
\* its own compares.
RelationshipSame(a, b) == a = b

\* Relationship.__eq__ (and __hash__): the two node ids, nothing else.
RelationshipEq(a, b) ==
    <<NodeId(a.source_node), NodeId(a.target_node)>>
        = <<NodeId(b.source_node), NodeId(b.target_node)>>

\* `relationship in relationships`
Member(r, rels) == \E x \in rels : RelationshipEq(x, r)

\* set.add: an element equal to one already in the set is not added.
SetAdd(rels, r) == IF Member(r, rels) THEN rels ELSE rels \cup {r}

RECURSIVE AddKeggTargets(_, _, _, _)
\* add_kegg_relationships, `for target in kegg_targets`; a is [rels, err].
AddKeggTargets(a, node, targets, level) ==
    IF targets = <<>> \/ a.err # "" THEN a
    ELSE LET t == build_node(Head(targets))
             r == Relationship(node, t.node, TRUE, "kegg", level)
         IN  AddKeggTargets(
                IF t.err # "" THEN [a EXCEPT !.err = t.err]
                ELSE IF ~t.found THEN a
                ELSE IF ~Member(r, a.rels) THEN [a EXCEPT !.rels = SetAdd(@, r)]
                ELSE a,
                node, Tail(targets), level)

RECURSIVE AddKeggAccessions(_, _, _, _)
\* add_kegg_relationships, `for kegg_accession in node.kegg_accession`.
AddKeggAccessions(a, node, kegg_accessions, level) ==
    IF kegg_accessions = <<>> THEN a
    ELSE AddKeggAccessions(
            AddKeggTargets(a, node, get_kegg_targets(Head(kegg_accessions)), level),
            node, Tail(kegg_accessions), level)

add_kegg_relationships(node, rels, level) ==
    AddKeggAccessions([rels |-> rels, err |-> ""], node, node.kegg_accession, level)

RECURSIVE AddStringTargets(_, _, _, _)
\* add_string_relationships, `for target in string_targets`.
AddStringTargets(a, node, targets, level) ==
    IF targets = <<>> \/ a.err # "" THEN a
    ELSE LET t == build_node(Head(targets))
             r == Relationship(node, t.node, FALSE, "string", level)
             inv == Relationship(t.node, node, FALSE, "string", level)
         IN  AddStringTargets(
                IF t.err # "" THEN [a EXCEPT !.err = t.err]
                ELSE IF ~t.found THEN a
                ELSE IF ~Member(r, a.rels) /\ ~Member(inv, a.rels)
                THEN [a EXCEPT !.rels = SetAdd(@, r)]
                ELSE a,
                node, Tail(targets), level)

RECURSIVE AddStringTags(_, _, _, _, _)
\* add_string_relationships, `for refseq_locus_tag in node.refseq_locus_tag`.
AddStringTags(a, node, refseq_locus_tags, threshold, level) ==
    IF refseq_locus_tags = <<>> THEN a
    ELSE AddStringTags(
            AddStringTargets(a, node, get_string_targets(Head(refseq_locus_tags), threshold), level),
            node, Tail(refseq_locus_tags), threshold, level)

add_string_relationships(node, threshold, rels, level) ==
    AddStringTags([rels |-> rels, err |-> ""], node, node.refseq_locus_tag, threshold, level)


\* The loop over id_list with `raise ValueError` where the code logs a warning.
ResolveSeedStrict ==
    /\ pc = "build_nodes"
    /\ IF cursor > Len(id_list)
       THEN /\ pc' = IF depth = 0 THEN "exit" ELSE "add_kegg"
            /\ cursor' = 1
            /\ neighborhood_level' = 1
            /\ UNCHANGED <<raised, query_nodes>>
       ELSE LET b == build_node(id_list[cursor])
            IN  IF b.err # "" \/ ~b.found
                THEN Exit("ValueError") /\ UNCHANGED <<cursor, query_nodes, neighborhood_level>>
                ELSE /\ query_nodes' = Append(query_nodes, b.node)
                     /\ cursor' = cursor + 1
                     /\ UNCHANGED <<pc, raised, neighborhood_level>>
    /\ UNCHANGED <<store, graph_args, relationships>>
    /\ UNCHANGED <<inputs, generic_rows, todo, uniprot_maps, refseq_maps, kegg_maps,
                   id_map_locals, stdout>>

\* One iteration of run_build_graph's loop over id_list (lines 248-254), or,
\* after the last id, the entry into `for i in range(depth)`.
ResolveSeed ==
    /\ pc = "build_nodes"
    /\ IF cursor > Len(id_list)
       THEN /\ pc' = IF depth = 0 THEN "exit" ELSE "add_kegg"
            /\ cursor' = 1
            /\ neighborhood_level' = 1
            /\ UNCHANGED <<raised, query_nodes>>
       ELSE LET b == build_node(id_list[cursor])
            IN  IF b.err # ""
                THEN Exit(b.err) /\ UNCHANGED <<cursor, query_nodes, neighborhood_level>>
                ELSE /\ query_nodes' = IF b.found THEN Append(query_nodes, b.node) ELSE query_nodes
                     /\ cursor' = cursor + 1
                     /\ UNCHANGED <<pc, raised, neighborhood_level>>
    /\ UNCHANGED <<store, graph_args, relationships>>
    /\ UNCHANGED <<inputs, generic_rows, todo, uniprot_maps, refseq_maps, kegg_maps,
                   id_map_locals, stdout>>

\* One iteration of the first loop over query_nodes (lines 260-262), or its end.
AddKegg ==
    /\ pc = "add_kegg"
    /\ IF cursor > Len(query_nodes)
       THEN /\ pc' = "add_string"
            /\ cursor' = 1
            /\ UNCHANGED <<raised, relationships>>
       ELSE LET a == add_kegg_relationships(query_nodes[cursor], relationships, neighborhood_level)
            IN  IF a.err # ""
                THEN Exit(a.err) /\ UNCHANGED <<cursor, relationships>>
                ELSE /\ relationships' = a.rels
                     /\ cursor' = cursor + 1
                     /\ UNCHANGED <<pc, raised>>
    /\ UNCHANGED <<store, graph_args, query_nodes, neighborhood_level>>
    /\ UNCHANGED <<inputs, generic_rows, todo, uniprot_maps, refseq_maps, kegg_maps,
                   id_map_locals, stdout>>

\* One iteration of the second loop over query_nodes (lines 264-266), or its end.
AddString ==
    /\ pc = "add_string"
    /\ IF cursor > Len(query_nodes)
       THEN /\ pc' = "next_level"
            /\ UNCHANGED <<cursor, raised, relationships>>
       ELSE LET a == add_string_relationships(query_nodes[cursor], string_threshold,
                                              relationships, neighborhood_level)
            IN  IF a.err # ""
                THEN Exit(a.err) /\ UNCHANGED <<cursor, relationships>>
                ELSE /\ relationships' = a.rels
                     /\ cursor' = cursor + 1
                     /\ UNCHANGED <<pc, raised>>
    /\ UNCHANGED <<store, graph_args, query_nodes, neighborhood_level>>
    /\ UNCHANGED <<inputs, generic_rows, todo, uniprot_maps, refseq_maps, kegg_maps,
                   id_map_locals, stdout>>

RECURSIVE Orders(_)
\* The orders in which a set can be iterated.
Orders(S) ==
    IF S = {} THEN {<<>>}
    ELSE UNION {{<<x>> \o o : o \in Orders(S \ {x})} : x \in S}

\* Line 268: query_nodes = [relationship.target_node for relationship in relationships],
\* in one of the orders the set may be iterated in; then the next level, or the return.
NextLevel ==
    /\ pc = "next_level"
    /\ \E o \in Orders(relationships) :
           query_nodes' = [j \in DOMAIN o |-> o[j].target_node]
    /\ neighborhood_level' = IF neighborhood_level = depth THEN depth ELSE neighborhood_level + 1
    /\ cursor' = 1
    /\ pc' = IF neighborhood_level = depth THEN "exit" ELSE "add_kegg"
    /\ UNCHANGED <<store, graph_args, relationships, raised>>
    /\ UNCHANGED <<inputs, generic_rows, todo, uniprot_maps, refseq_maps, kegg_maps,
                   id_map_locals, stdout>>

\* lib/table_experimental_condition.py, condition_is_valid: EXISTS a row of
\* the condition and the experiment type.
condition_is_valid(type, condition) ==
    \E row \in experimental_condition :
        row.name = condition /\ row.experimental_condition_type = type

\* lib/table_transcriptomics.py, get_log2_fold_change: the fold change stored
\* for the tag and the two conditions, or None.
get_log2_fold_change(locus_tag, a, b) ==
    LET rows == {row \in transcriptomics :
                    /\ row.experimental_id = locus_tag
                    /\ row.condition_a = a
                    /\ row.condition_b = b}
    IN  IF rows = {} THEN NoWeight
        ELSE [is_none |-> FALSE, value |-> (CHOOSE row \in rows : TRUE).log2_fold_change]

\* abs
Abs(x) == IF x < 0 THEN 0 - x ELSE x

RECURSIVE MaxByAbs(_, _)
\* max(weights, key=abs) continued after best: the first of the largest.
MaxByAbs(best, weights) ==
    IF weights = <<>> THEN best
    ELSE MaxByAbs(IF Abs(Head(weights)) > Abs(best) THEN Head(weights) ELSE best, Tail(weights))

RECURSIVE LookedUp(_, _, _)
\* get_transcriptomics_weight, one of its two loops over tags: `if weight:`
\* keeps the values that are neither None nor 0.
LookedUp(tags, a, b) ==
    IF tags = <<>> THEN <<>>
    ELSE LET weight == get_log2_fold_change(Head(tags), a, b)
         IN  (IF ~weight.is_none /\ weight.value # 0 THEN <<weight.value>> ELSE <<>>)
                 \o LookedUp(Tail(tags), a, b)

get_transcriptomics_weight(node, a, b) ==
    LET weights == LookedUp(node.locus_tag, a, b) \o LookedUp(node.refseq_locus_tag, a, b)
    IN  IF weights = <<>> THEN NoWeight
        ELSE [is_none |-> FALSE, value |-> MaxByAbs(Head(weights), Tail(weights))]

\* The validation with condition_a tested twice and condition_b never.
CheckConditionsFirstOnly ==
    /\ pc = "adjust_weights"
    /\ IF ~condition_is_valid(experiment_type, condition_a) THEN Exit("ValueError") /\ UNCHANGED todo
       ELSE IF experiment_type = "transcriptomics"
            THEN pc' = "reweight" /\ todo' = relationships /\ UNCHANGED raised
       ELSE IF experiment_type = "proteomics" THEN Exit("NotImplementedError") /\ UNCHANGED todo
       ELSE pc' = "exit" /\ UNCHANGED <<todo, raised>>
    /\ UNCHANGED <<graph_vars, cursor>>
    /\ UNCHANGED <<inputs, generic_rows, uniprot_maps, refseq_maps, kegg_maps, id_map_locals, stdout>>

\* adjust_weights_with_expression_data, lines 282-291 and 304-306: the two
\* conditions are validated, then the experiment type is matched.
CheckConditions ==
    /\ pc = "adjust_weights"
    /\ IF ~condition_is_valid(experiment_type, condition_a) THEN Exit("ValueError") /\ UNCHANGED todo
       ELSE IF ~condition_is_valid(experiment_type, condition_b) THEN Exit("ValueError") /\ UNCHANGED todo
       ELSE IF experiment_type = "transcriptomics"
            THEN pc' = "reweight" /\ todo' = relationships /\ UNCHANGED raised
       ELSE IF experiment_type = "proteomics" THEN Exit("NotImplementedError") /\ UNCHANGED todo
       ELSE pc' = "exit" /\ UNCHANGED <<todo, raised>>
    /\ UNCHANGED <<graph_vars, cursor>>
    /\ UNCHANGED <<inputs, generic_rows, uniprot_maps, refseq_maps, kegg_maps, id_map_locals, stdout>>

\* One iteration of `for relationship in relationships` (lines 293-302), in
\* one of the orders of the set, or conn.commit() (line 310) after the last.
\* Each relationship is shown with its own two nodes: a Node object that
\* several relationships share is assigned the same weight with each of them.
AdjustWeight ==
    /\ pc = "reweight"
    /\ IF todo = {}
       THEN pc' = "exit" /\ UNCHANGED <<todo, relationships>>
       ELSE \E relationship \in todo :
                /\ relationships' = (relationships \ {relationship}) \cup
                       {[relationship EXCEPT
                           !.source_node.weight =
                               get_transcriptomics_weight(relationship.source_node, condition_a, condition_b),
                           !.target_node.weight =
                               get_transcriptomics_weight(relationship.target_node, condition_a, condition_b)]}
                /\ todo' = todo \ {relationship}
                /\ pc' = pc
    /\ UNCHANGED <<store, graph_args, query_nodes, neighborhood_level, cursor, raised>>
    /\ UNCHANGED <<inputs, generic_rows, uniprot_maps, refseq_maps, kegg_maps, id_map_locals, stdout>>


(***************************************************************************)
(* The inputs of the reconciliation runs that are explored.                *)
(***************************************************************************)
MaxUniprotRows == 2

MaxRefseqRows == 2

MaxKeggRows == 1

U1 == <<"U", "1">>

U2 == <<"U", "2">>

L1 == <<"L", "1">>

L2 == <<"L", "2">>

R1 == <<"R", "1">>

R2 == <<"R", "2">>

kL1 == <<"k", ":", "L", "1">>

jL1 == <<"j", ":", "L", "1">>

kL2 == <<"k", ":", "L", "2">>

RP1 == <<"R", "P", "1">>

RP1v == RP1 \o <<".", "1">>

RP2 == <<"R", "P", "2">>

Semi(a, b) == a \o <<";">> \o b

\* Lines of the UniProt input: accession, locus tags, ORF names, KEGG
\* accessions, RefSeq protein id.
UniprotLines ==
    { <<U1, Semi(L1, L2), NULL, kL1, NULL>>,
      <<U1, L1, NULL, kL1, RP1v>>,
      <<U2, L1, NULL, jL1, RP2>>,
      <<U2, NULL, L2, Semi(kL1, kL2), NULL>>,
      <<U2, L1, NULL, Semi(jL1, kL1), NULL>>,
      <<U2, NULL, NULL, NULL, RP2>>,
      <<U1, NULL, NULL, kL1, RP1v>>,
      <<NULL, NULL, NULL, NULL, NULL>> }

\* Lines of the RefSeq input: RefSeq locus tag, locus tags, RefSeq protein id.
RefseqLines ==
    { <<R1, L1, RP1v>>,
      <<R2, L2, RP2>>,
      <<R1, Semi(L1, L2), NULL>>,
      <<NULL, NULL, NULL>> }

\* Lines of the KEGG input: KEGG accession.
KeggLines == { <<kL1>>, <<jL1>>, <<kL2>>, <<NULL>> }

\* The sequences of at most n members of S.
SeqsUpTo(S, n) == UNION {[1..m -> S] : m \in 0..n}

\* The module-level dicts and sets of match_ids.py (lines 66-95) as the
\* import leaves them, and nothing generated or written yet.
MatchTables ==
    /\ generic_rows = <<>>
    /\ todo = {}
    /\ uniprot_to_refseq_protein_id = <<>>
    /\ uniprot_to_locus_tag = <<>>
    /\ uniprot_to_kegg_accession = <<>>
    /\ refseq_locus_tag_to_refseq_protein_id = <<>>
    /\ refseq_locus_tag_to_locus_tag = <<>>
    /\ locus_tag_to_kegg_accession = <<>>
    /\ locus_tag_set = {}
    /\ kegg_accession_set = {}
    /\ locus_tag_to_refseq_locus_tag = <<>>
    /\ records = <<>>
    /\ used_uniprot_accessions = {}
    /\ used_refseq_locus_tags = {}
    /\ used_locus_tags = {}
    /\ used_kegg_accessions = {}
    /\ stdout = <<>>

\* No reconciliation is run.
MatchIdle ==
    /\ uniprot_ids = <<>> /\ refseq_ids = <<>> /\ kegg_ids = <<>>
    /\ MatchTables

\* No graph is built.
GraphIdle ==
    /\ id_mapper = <<>>
    /\ kegg_relations = <<>>
    /\ string_interactions = <<>>
    /\ uniprot_gene_name = <<>>
    /\ experimental_condition = {}
    /\ transcriptomics = {}
    /\ id_list = <<>>
    /\ depth = 0
    /\ string_threshold = 0
    /\ experiment_type = None
    /\ condition_a = None
    /\ condition_b = None
    /\ relationships = {}
    /\ query_nodes = <<>>
    /\ neighborhood_level = 0

\* match_ids.main after read_input: the module-level dicts and sets are empty.
Init ==
    /\ uniprot_ids \in SeqsUpTo(UniprotLines, MaxUniprotRows)
    /\ refseq_ids \in SeqsUpTo(RefseqLines, MaxRefseqRows)
    /\ kegg_ids \in SeqsUpTo(KeggLines, MaxKeggRows)
    /\ pc = "parse_uniprot"
    /\ cursor = 1
    /\ raised = ""
    /\ MatchTables
    /\ GraphIdle

Next ==
    \/ ReadUniprot
    \/ ParseUniprotRow
    \/ ReadRefseq
    \/ ParseRefseqRow
    \/ ReadKegg
    \/ ParseKeggRow
    \/ BuildInverse
    \/ FromUniprot
    \/ FromRefseq
    \/ FromKegg
    \/ FromLocusTags
    \/ WriteRecord
    \/ BrokenPipe

Spec == Init /\ [][Next]_vars

\* Lines of the three inputs of which some have too few or too many cells
\* for their schema; the malformed lines name U2, L2, R2 and k:L2, which no
\* well-formed line names.
ColumnLines ==
    [uniprot |-> { <<U1, L1, NULL, kL1, RP1v>>,
                   <<U2, L2>>,
                   <<U2, L2, NULL, kL2, RP2, <<"X">> >> },
     refseq  |-> { <<R1, L1, RP1v>>,
                   <<R2, L2>>,
                   <<R2, L2, RP2, <<"X">> >> },
     kegg    |-> { <<kL1>>,
                   <<kL2, <<"X">> >> }]

\* match_ids.main after read_input, on such inputs.
InitColumns ==
    /\ uniprot_ids \in SeqsUpTo(ColumnLines.uniprot, MaxUniprotRows)
    /\ refseq_ids \in SeqsUpTo(ColumnLines.refseq, MaxRefseqRows)
    /\ kegg_ids \in SeqsUpTo(ColumnLines.kegg, MaxKeggRows)
    /\ pc = "parse_uniprot"
    /\ cursor = 1
    /\ raised = ""
    /\ MatchTables
    /\ GraphIdle

SpecColumns == InitColumns /\ [][Next]_vars


(***************************************************************************)
(* The stores, seeds and depths of the graph builds that are explored.     *)
(***************************************************************************)
MaxSeeds == 1

MaxDepth == 3

Entities == <<"A", "B", "C", "D">>

UA == <<"U", "A">>

RA == <<"R", "A">>

RB == <<"R", "B">>

RC == <<"R", "C">>

Kegg(x) == <<"k", ":", "L", x>>

IdMapperRecord(ua, rlt, lt, kacc, pid) ==
    [uniprot_accession |-> ua, refseq_locus_tag |-> rlt, locus_tag |-> lt,
     kegg_accession |-> kacc, refseq_protein_id |-> pid]

\* The row that joins all the identifiers of entity x.
EntityRow(x) == IdMapperRecord(<<"U", x>>, <<"R", x>>, <<"L", x>>, Kegg(x), None)

\* One row per entity, no gene names.
PlainStore ==
    [id_mapper |-> [j \in DOMAIN Entities |-> EntityRow(Entities[j])],
     uniprot_gene_name |-> <<>>]

\* As PlainStore, but entity A holds a second locus tag in a row of its own
\* (a UniProt entry with two locus tags, one of them unknown to RefSeq and
\* KEGG), and has a gene name.
TwoRowStore ==
    [id_mapper |-> <<IdMapperRecord(UA, None, <<"M", "A">>, None, None)>> \o PlainStore.id_mapper,
     uniprot_gene_name |-> <<[k |-> UA, v |-> <<"g", "A">>]>>]

RPZ == <<"R", "P", "Z">>

\* As PlainStore, but entity B holds a second locus tag in a second row that
\* repeats its other identifiers, the pathway accession of entity C is also
\* in the row of another UniProt accession, and one row holds a RefSeq
\* protein id and nothing else.
ConflictStore ==
    [id_mapper |->
        <<EntityRow("A"), EntityRow("B"),
          IdMapperRecord(<<"U", "B">>, RB, <<"M", "B">>, Kegg("B"), None),
          EntityRow("C"),
          IdMapperRecord(<<"U", "X">>, None, <<"L", "X">>, Kegg("C"), None),
          EntityRow("D"),
          IdMapperRecord(None, None, None, None, RPZ)>>,
     uniprot_gene_name |-> <<>>]

\* Entity A with all its identifiers, and three entities of which the store
\* holds the pathway accession only.
SentinelStore ==
    [id_mapper |->
        <<EntityRow("A"),
          IdMapperRecord(None, None, None, Kegg("B"), None),
          IdMapperRecord(None, None, None, Kegg("C"), None),
          IdMapperRecord(None, None, None, Kegg("D"), None)>>,
     uniprot_gene_name |-> <<>>]

Stores == {PlainStore, TwoRowStore, ConflictStore, SentinelStore}

KeggRelation(x, y) == [source |-> Kegg(x), target |-> Kegg(y)]

KeggRelationRows ==
    <<KeggRelation("A", "B"), KeggRelation("B", "C"), KeggRelation("C", "D"), KeggRelation("B", "A")>>

StringInteraction(a, b, score) == [protein_a |-> a, protein_b |-> b, combined_score |-> score]

StringInteractionRows ==
    <<StringInteraction(RA, RB, 401), StringInteraction(RB, RA, 401), StringInteraction(RB, RC, 400)>>

\* --string-threshold: a value that every score of the rows exceeds, and one
\* that a score equals.
StringThresholds == {399, 400}

\* A UniProt accession, a RefSeq locus tag, and a RefSeq protein id that no
\* row of PlainStore and TwoRowStore holds.
SeedIds == {UA, RB, RPZ}

\* The lines of the seed file: at most MaxSeeds that name an entity, and at
\* most one more line; RPZ names no entity of any store.
SeedLists ==
    {l \in SeqsUpTo(SeedIds, MaxSeeds + 1) : Cardinality({j \in DOMAIN l : l[j] # RPZ}) <= MaxSeeds}

\* The tables that hold some of the rows, in the rows' order.
Tables(rows) ==
    {SelectSeq([j \in DOMAIN rows |-> <<j, rows[j]>>], LAMBDA e : e[1] \in keep) : keep \in SUBSET DOMAIN rows}

RowsOf(table) == [j \in DOMAIN table |-> table[j][2]]

\* build_graph.main at the call of run_build_graph (lib/graph.py line 246).
InitGraph ==
    /\ \E st \in Stores :
           /\ id_mapper = st.id_mapper
           /\ uniprot_gene_name = st.uniprot_gene_name
    /\ kegg_relations \in {RowsOf(t) : t \in Tables(KeggRelationRows)}
    /\ string_interactions \in {RowsOf(t) : t \in Tables(StringInteractionRows)}
    /\ id_list \in SeedLists
    /\ depth \in 0..MaxDepth
    /\ string_threshold \in StringThresholds
    /\ experimental_condition = {}
    /\ transcriptomics = {}
    /\ experiment_type = None
    /\ condition_a = None
    /\ condition_b = None
    /\ relationships = {}
    /\ query_nodes = <<>>
    /\ neighborhood_level = 0
    /\ pc = "build_nodes"
    /\ cursor = 1
    /\ raised = ""
    /\ MatchIdle

NextGraph ==
    \/ ResolveSeed
    \/ AddKegg
    \/ AddString
    \/ NextLevel

SpecGraph == InitGraph /\ [][NextGraph]_vars

\* Pathway relations that put A and C in one frontier when B is the seed.
FrontierRelationRows ==
    <<KeggRelation("B", "C"), KeggRelation("B", "A"), KeggRelation("C", "D")>>

\* Interactions between entities that a pathway relation does not join
\* (A and C), and between two that one does (B and C).
FrontierInteractionRows ==
    <<StringInteraction(RA, RC, 401), StringInteraction(RB, RC, 401)>>

\* build_graph.main at the call of run_build_graph (lib/graph.py line 246),
\* on stores where two nodes of one frontier interact.
InitFrontier ==
    /\ \E st \in {PlainStore, TwoRowStore} :
           /\ id_mapper = st.id_mapper
           /\ uniprot_gene_name = st.uniprot_gene_name
    /\ kegg_relations \in {RowsOf(t) : t \in Tables(FrontierRelationRows)}
    /\ string_interactions \in {RowsOf(t) : t \in Tables(FrontierInteractionRows)}
    /\ id_list \in SeedLists
    /\ depth \in 0..MaxDepth
    /\ string_threshold = 400
    /\ experimental_condition = {}
    /\ transcriptomics = {}
    /\ experiment_type = None
    /\ condition_a = None
    /\ condition_b = None
    /\ relationships = {}
    /\ query_nodes = <<>>
    /\ neighborhood_level = 0
    /\ pc = "build_nodes"
    /\ cursor = 1
    /\ raised = ""
    /\ MatchIdle

SpecFrontier == InitFrontier /\ [][NextGraph]_vars


(***************************************************************************)
(* The graphs, registries and expression values of the reweighting passes  *)
(* that are explored.                                                      *)
(***************************************************************************)
ConditionRow(name, type) == [name |-> name, experimental_condition_type |-> type]

\* Rows of the condition registry: c1 as a condition of either experiment
\* type, c2 as one of transcriptomics.
ConditionRows ==
    {ConditionRow("c1", "transcriptomics"), ConditionRow("c2", "transcriptomics"),
     ConditionRow("c1", "proteomics")}

\* The registries: some of the rows, one row at most per name (the upsert's
\* ON CONFLICT (name)).
Registries ==
    {rows \in SUBSET ConditionRows : \A r1, r2 \in rows : r1.name = r2.name => r1 = r2}

ConditionNames == {"c1", "c2"}

\* --experiment-type, choices=["transcriptomics", "proteomics"].
ExperimentTypes == {"transcriptomics", "proteomics"}

TranscriptomicsRecord(id, a, b, log2_fold_change) ==
    [experimental_id |-> id, condition_a |-> a, condition_b |-> b,
     log2_fold_change |-> log2_fold_change]

\* Rows of the expression source, one per (tag, condition a, condition b):
\* values of both signs for the three tags of entity A, two of them of the
\* same magnitude, a zero for B's locus tag, and a value of B for the two
\* conditions in the other order.
TranscriptomicsRows ==
    {TranscriptomicsRecord(<<"M", "A">>, "c1", "c2", 2),
     TranscriptomicsRecord(<<"L", "A">>, "c1", "c2", -3),
     TranscriptomicsRecord(RA, "c1", "c2", 3),
     TranscriptomicsRecord(<<"L", "B">>, "c1", "c2", 0),
     TranscriptomicsRecord(<<"L", "B">>, "c2", "c1", 5)}

\* run_build_graph of one seed and depth 1, lines 246-270.
Built(seed) ==
    LET b == build_node(seed)
    IN  IF ~b.found THEN {}
        ELSE add_string_relationships(b.node, string_threshold,
                 add_kegg_relationships(b.node, {}, 1).rels, 1).rels

\* build_graph.main at the call of adjust_weights_with_expression_data
\* (lib/graph.py line 273) with the graph that run_build_graph returned.
InitWeights ==
    /\ \E st \in {PlainStore, TwoRowStore} :
           /\ id_mapper = st.id_mapper
           /\ uniprot_gene_name = st.uniprot_gene_name
    /\ kegg_relations = <<KeggRelation("A", "B"), KeggRelation("B", "C")>>
    /\ string_interactions = <<StringInteraction(RA, RB, 401)>>
    /\ id_list \in {<<seed>> : seed \in SeedIds}
    /\ depth = 1
    /\ string_threshold = 400
    /\ relationships = Built(id_list[1])
    /\ experimental_condition \in Registries
    /\ transcriptomics \in SUBSET TranscriptomicsRows
    /\ experiment_type \in ExperimentTypes
    /\ condition_a \in ConditionNames
    /\ condition_b \in ConditionNames
    /\ query_nodes = <<>>
    /\ neighborhood_level = 0
    /\ pc = "adjust_weights"
    /\ cursor = 1
    /\ raised = ""
    /\ MatchIdle

NextWeights ==
    \/ CheckConditions
    \/ AdjustWeight

SpecWeights == InitWeights /\ [][NextWeights]_vars


(***************************************************************************)
(* Properties of the reconciliation (specification Spec).                  *)
(***************************************************************************)
\* The identifiers named by a cell of an input line.
CellIds(cell) == IF cell = NULL THEN {} ELSE Range(Split(cell, ";"))

\* The primary accessions, annotation locus tags, locus tags and pathway
\* accessions of the three inputs.
InputIdentifiers ==
    UNION {CellIds(uniprot_ids[j][1]) \cup CellIds(uniprot_ids[j][2]) \cup CellIds(uniprot_ids[j][4]) :
              j \in DOMAIN uniprot_ids}
        \cup UNION {CellIds(refseq_ids[j][1]) \cup CellIds(refseq_ids[j][2]) : j \in DOMAIN refseq_ids}
        \cup UNION {CellIds(kegg_ids[j][1]) : j \in DOMAIN kegg_ids}

Referenced(id) ==
    \E j \in DOMAIN records :
        id \in {records[j].uniprot_accession, records[j].refseq_locus_tag,
                records[j].locus_tag, records[j].kegg_accession}

\* generate_id_map has returned its records.
Succeeded == pc = "write" \/ (pc = "exit" /\ raised \in {"", "BrokenPipeError"})

\* Phase 1 is over and no later phase has an accession of its own to add.
PhaseOneDone == pc = "from_refseq"

\* C1: when the three parsers and generate_id_map succeed, every primary
\* accession, annotation locus tag, locus tag and pathway accession of any
\* input row, one that only the pathway stream names included, is referenced
\* by at least one record.
C1_EveryIdentifierReferenced ==
    Succeeded => \A id \in InputIdentifiers : Referenced(id)

\* The (locus tag, pathway accession) bindings of the primary rows.
UniprotBindings ==
    LET rows == parse_tsv(uniprot_ids, UniprotSchema)
        row(r) == NormaliseUniprotRow(UniprotGenericRow(rows[r]))
        pairs(r) == pair_lt_kegg(OrEmpty(row(r).locus_tag), OrEmpty(row(r).kegg_accession))
    IN  UNION {{b \in Range(pairs(r)) : Truthy(b[1]) /\ Truthy(b[2])} : r \in DOMAIN rows}

\* The (locus tag, pathway accession) bindings of the pathway rows.
KeggBindings ==
    {<<Split(kegg_ids[j][1], ":")[2], kegg_ids[j][1]>> :
        j \in {i \in DOMAIN kegg_ids : Len(Split(kegg_ids[i][1], ":")) > 1}}

Contradictory(bindings) ==
    \E a, b \in bindings : (a[1] = b[1] /\ a[2] # b[2]) \/ (a[2] = b[2] /\ a[1] # b[1])

\* C2: when the primary and pathway rows bind a locus tag to two different
\* pathway accessions, or a pathway accession to two different locus tags,
\* whichever streams the two bindings come from, reconciliation does not
\* succeed and no record is written.
C2_ContradictoryBindingsRaise ==
    Contradictory(UniprotBindings \cup KeggBindings) => ~Succeeded /\ stdout = <<>>

\* The key column of the lines of a stream.
Keys(lines) == [j \in DOMAIN lines |-> lines[j][1]]

Repeats(keys) == \E i, j \in DOMAIN keys : i < j /\ keys[i] = keys[j]

\* The first row whose key an earlier row has.
SecondOccurrence(keys) ==
    CHOOSE j \in DOMAIN keys :
        /\ \E i \in 1..(j - 1) : keys[i] = keys[j]
        /\ \A h \in 1..(j - 1) : \A i \in 1..(h - 1) : keys[i] # keys[h]

IsPrefix(s, t) == Len(s) <= Len(t) /\ s = SubSeq(t, 1, Len(s))

\* C4: main writes all or nothing: what is written is a prefix of the complete
\* record list, written only after generate_id_map returned it; a run ended by
\* a conflict (or any other exception of parsing or generation) has written
\* nothing; and a run that ends with status 0 has written every record.
C4_AllOrNothing ==
    /\ IsPrefix(stdout, records)
    /\ stdout # <<>> => Succeeded
    /\ raised \notin {"", "BrokenPipeError"} => stdout = <<>>
    /\ (pc = "exit" /\ raised = "") => stdout = records

\* A run that generated several records and wrote them all.
C4_Witness ==
    /\ pc = "exit"
    /\ raised = ""
    /\ Len(records) >= 2
    /\ stdout = records

HasRecord(ua, rlt, lt, pid) ==
    \E j \in DOMAIN records :
        /\ records[j].uniprot_accession = ua
        /\ records[j].refseq_locus_tag = rlt
        /\ records[j].locus_tag = lt
        /\ records[j].refseq_protein_id = pid

\* The protein id of a locus tag's own annotation locus tag, None without one.
OwnProteinId(lt) ==
    LET R == DictGet(locus_tag_to_refseq_locus_tag, lt, None)
    IN  IF Truthy(R) THEN DictGet(refseq_locus_tag_to_refseq_protein_id, R, None) ELSE None

\* The split rule for locus tag t of primary accession U.
SplitRule(U, t) ==
    LET R == DictGet(locus_tag_to_refseq_locus_tag, t, None)
        given == DictAt(uniprot_to_refseq_protein_id, U)
        own == OwnProteinId(t)
    IN  Truthy(R) =>
            IF Truthy(given) /\ Truthy(own) /\ given # own
            THEN /\ HasRecord(None, R, t, own)
                 /\ HasRecord(U, None, t, given)
                 /\ \A j \in DOMAIN records :
                        ~(records[j].uniprot_accession = U /\ records[j].refseq_locus_tag = R)
            ELSE \E j \in DOMAIN records :
                    /\ records[j].uniprot_accession = U
                    /\ records[j].refseq_locus_tag = R
                    /\ records[j].locus_tag = t

\* C5: after phase 1, for every locus tag t of a primary accession U whose
\* annotation locus tag R is resolved: when the protein id the primary stream
\* gives U and the one recorded for R are both present and differ, there are
\* the two split records and none carries both U and R; otherwise there is a
\* record joining U, R and t.
C5_SplitExactlyOnDisagreement ==
    PhaseOneDone =>
        \A j \in DOMAIN uniprot_to_locus_tag :
            \A t \in Range(uniprot_to_locus_tag[j].v) :
                SplitRule(uniprot_to_locus_tag[j].k, t)

\* C6: after phase 1, a record for a locus tag of a primary accession carries
\* the pathway accession paired with that tag (none if unpaired) and, when the
\* primary stream gives the accession no protein id, the protein id of the
\* tag's own annotation locus tag (none if it has none).
C6_OwnAssociationsOnly ==
    PhaseOneDone =>
        \A j \in DOMAIN records :
            (Truthy(records[j].uniprot_accession) /\ Truthy(records[j].locus_tag)) =>
                /\ records[j].kegg_accession =
                       DictGet(locus_tag_to_kegg_accession, records[j].locus_tag, None)
                /\ ~Truthy(DictAt(uniprot_to_refseq_protein_id, records[j].uniprot_accession)) =>
                       records[j].refseq_protein_id = OwnProteinId(records[j].locus_tag)

\* C7: every record of generate_id_map has at least one of its five fields
\* non-null.
C7_SomeFieldNonNull ==
    \A j \in DOMAIN records :
        \/ Truthy(records[j].uniprot_accession)
        \/ Truthy(records[j].refseq_locus_tag)
        \/ Truthy(records[j].locus_tag)
        \/ Truthy(records[j].kegg_accession)
        \/ Truthy(records[j].refseq_protein_id)

\* The accession is the first of the list that contains the tag, or None
\* when none of the list contains it.
FirstContaining(kacc, lt, kegg_accessions) ==
    IF \E i \in DOMAIN kegg_accessions : Contains(lt, kegg_accessions[i])
    THEN \E i \in DOMAIN kegg_accessions :
             /\ kacc = kegg_accessions[i]
             /\ Contains(lt, kacc)
             /\ \A h \in 1..(i - 1) : ~Contains(lt, kegg_accessions[h])
    ELSE kacc = None

\* The pairs are one per tag, in the tags' order, each tag with its first
\* containing accession, and then, in the accessions' order, one pair
\* without a tag for each accession that no tag selected.
PairedAsClaimed(pairs, locus_tags, kegg_accessions) ==
    LET n == Len(locus_tags)
        selected == {pairs[j][2] : j \in 1..n}
        rest == SelectSeq(kegg_accessions, LAMBDA kegg : kegg \notin selected)
    IN  /\ Len(pairs) = n + Len(rest)
        /\ \A j \in 1..n :
               /\ pairs[j][1] = locus_tags[j]
               /\ FirstContaining(pairs[j][2], locus_tags[j], kegg_accessions)
        /\ \A j \in 1..Len(rest) : pairs[n + j] = <<None, rest[j]>>
        /\ \A i \in DOMAIN kegg_accessions :
               \E j \in DOMAIN pairs : pairs[j][2] = kegg_accessions[i]

\* C16: for the locus tags and pathway accessions of every row that
\* parse_uniprot pairs, pair_lt_kegg returns one pair per tag in order (the
\* tag with the first accession of the list that contains it, or with none),
\* then one pair without a tag per accession that no tag selected; every
\* accession of the row is in some pair.
C16_PairsPerTagThenUnpaired ==
    (pc = "uniprot_row" /\ generic_rows[cursor].kegg_accession.kind # "unset") =>
        PairedAsClaimed(
            pair_lt_kegg(OrEmpty(generic_rows[cursor].locus_tag),
                         OrEmpty(generic_rows[cursor].kegg_accession)),
            OrEmpty(generic_rows[cursor].locus_tag),
            OrEmpty(generic_rows[cursor].kegg_accession))

\* The row U2 L1 j:L1;k:L1 was paired: L1 is bound to j:L1, the first of the
\* two accessions that contain it, and k:L1 went into a pair without a tag.
C16_Witness ==
    /\ pc = "parse_refseq"
    /\ uniprot_ids = <<(<<U2, L1, NULL, Semi(jL1, kL1), NULL>>)>>
    /\ DictGet(locus_tag_to_kegg_accession, L1, <<>>) = jL1
    /\ DictGet(locus_tag_to_kegg_accession, kL1, <<>>) = None

\* The four phases of generate_id_map, in their order.
Phases == <<"from_uniprot", "from_refseq", "from_kegg", "from_locus_tags">>

\* The position of a place of the run among the phases (0 before them, 5
\* after them).
PhaseOf(place) ==
    IF \E p \in DOMAIN Phases : Phases[p] = place
    THEN CHOOSE p \in DOMAIN Phases : Phases[p] = place
    ELSE IF place \in {"write", "exit"} THEN 5 ELSE 0

\* The records that the step appends.
Emitted == {j \in DOMAIN records' : j > Len(records)}

\* No record appended by the step carries in the field an identifier that a
\* record emitted before the step carries in it.
FreshIn(field) ==
    \A j \in Emitted :
        Truthy(records'[j][field]) =>
            \A i \in DOMAIN records : records[i][field] # records'[j][field]

\* C19: the phases run in the order primary, annotation, pathway, remaining
\* locus tags, records are appended by the phases only and never removed,
\* and a phase emits no record for an identifier that an earlier record
\* carries: phase 2 none for a RefSeq locus tag, phase 3 none for a pathway
\* accession, phase 4 none for a locus tag.
C19_PhasesSkipUsed ==
    [][/\ PhaseOf(pc) >= 1 => PhaseOf(pc') \in {PhaseOf(pc), PhaseOf(pc) + 1, 5}
       /\ IsPrefix(records, records')
       /\ Emitted # {} => PhaseOf(pc) \in 1..4
       /\ pc = "from_refseq" => FreshIn("refseq_locus_tag")
       /\ pc = "from_kegg" => FreshIn("kegg_accession")
       /\ pc = "from_locus_tags" => FreshIn("locus_tag")]_vars

\* Phase 1 emitted the record of U1 with R1; phase 2 passed over R1 and
\* emitted the record of R2.
C19_Witness ==
    /\ pc = "from_kegg"
    /\ Keys(refseq_ids) = <<R1, R2>>
    /\ Len(records) = 2
    /\ records[1].uniprot_accession = U1
    /\ records[1].refseq_locus_tag = R1
    /\ records[2].uniprot_accession = None
    /\ records[2].refseq_locus_tag = R2

\* The lines whose number of cells is the number of columns of the schema.
WellFormed(lines, schema) == SelectSeq(lines, LAMBDA cells : Len(cells) = Len(schema))

\* The identifiers that the cells of the lines name.
LineIds(lines) ==
    UNION {UNION {CellIds(lines[j][c]) : c \in 1..Len(lines[j])} : j \in DOMAIN lines}

\* The identifiers of the well-formed lines of the three inputs (with the
\* locus tags that parse_kegg derives from their pathway accessions), and None.
WellFormedIds ==
    LET kegg == WellFormed(kegg_ids, KeggSchema)
    IN  LineIds(WellFormed(uniprot_ids, UniprotSchema))
            \cup LineIds(WellFormed(refseq_ids, RefseqSchema))
            \cup LineIds(kegg)
            \cup UNION {Range(Split(kegg[j][1], ":")) : j \in DOMAIN kegg}
            \cup {None}

\* C21: a row whose number of tab-separated cells differs from the number of
\* schema columns, fewer or more, contributes to no association map and to
\* no record: every key of the six maps, every member of the two sets and
\* every identifier of a record is named by a well-formed row.
C21_MalformedRowsContributeNothing ==
    /\ Range(DictKeys(uniprot_to_refseq_protein_id)) \subseteq WellFormedIds
    /\ Range(DictKeys(uniprot_to_locus_tag)) \subseteq WellFormedIds
    /\ Range(DictKeys(uniprot_to_kegg_accession)) \subseteq WellFormedIds
    /\ Range(DictKeys(refseq_locus_tag_to_refseq_protein_id)) \subseteq WellFormedIds
    /\ Range(DictKeys(refseq_locus_tag_to_locus_tag)) \subseteq WellFormedIds
    /\ Range(DictKeys(locus_tag_to_kegg_accession)) \subseteq WellFormedIds
    /\ locus_tag_set \cup kegg_accession_set \subseteq WellFormedIds
    /\ \A j \in DOMAIN records :
           {records[j].uniprot_accession, records[j].refseq_locus_tag,
            records[j].locus_tag, records[j].kegg_accession} \subseteq WellFormedIds

\* The primary stream bound the accession of the pathway row, or the locus
\* tag derived from it, to a different identifier.
Contradicted(kegg_accession) ==
    LET locus_tag == Split(kegg_accession, ":")[2]
    IN  \E b \in UniprotBindings :
            \/ b[2] = kegg_accession /\ b[1] # locus_tag
            \/ b[1] = locus_tag /\ b[2] # kegg_accession

\* C22: a pathway row ends the run with IdConflictError only when the primary
\* stream bound its accession, or the locus tag derived from it, to a
\* different identifier; a tag or accession that the primary stream lists
\* without a counterpart is accepted in a pathway row.
C22_ConflictOnlyOnContradiction ==
    [][(pc = "kegg_row" /\ raised' = "IdConflictError") =>
           Contradicted(generic_rows[cursor].kegg_accession.str)]_vars

\* C23: whenever the reconciliation succeeds, the protein id that a primary
\* row gives for its accession is, without its version, the protein id of at
\* least one record that carries the accession, whatever locus tags and
\* pathway accessions the row has.
C23_GivenProteinIdKept ==
    Succeeded =>
        \A j \in DOMAIN uniprot_ids :
            uniprot_ids[j][5] # NULL =>
                \E i \in DOMAIN records :
                    /\ records[i].uniprot_accession = uniprot_ids[j][1]
                    /\ records[i].refseq_protein_id = Split(uniprot_ids[j][5], ".")[1]

\* C24: a record that the remaining-locus-tags phase emits carries a primary
\* accession only if the primary stream gave that accession a protein id and
\* it is the protein id of the annotation locus tag of the record's locus
\* tag; a locus tag without a known protein id is joined to no accession.
C24_JoinedByProteinIdOnly ==
    [][pc = "from_locus_tags" =>
           \A j \in Emitted :
               Truthy(records'[j].uniprot_accession) =>
                   LET given == DictAt(uniprot_to_refseq_protein_id, records'[j].uniprot_accession)
                   IN  /\ Truthy(given)
                       /\ given = OwnProteinId(records'[j].locus_tag)]_vars

\* The places of the run inside the three stream parsers.
ParserPlaces == {"parse_uniprot", "uniprot_row", "parse_refseq", "refseq_row", "parse_kegg", "kegg_row"}

\* Every key of the annotation map, every member of locus_tag_set and every
\* member of kegg_accession_set is in its used set.
AllUsed ==
    /\ Range(DictKeys(refseq_locus_tag_to_refseq_protein_id)) \subseteq used_refseq_locus_tags
    /\ locus_tag_set \subseteq used_locus_tags
    /\ kegg_accession_set \subseteq used_kegg_accessions

\* C25: once the three parsers have succeeded generate_id_map never raises
\* IdConflictError (only a parser raises it), because after the four phases
\* every key of the annotation map, every member of locus_tag_set and every
\* member of kegg_accession_set is in its used set.
C25_CompletenessChecksNeverFail ==
    [][/\ (raised = "" /\ raised' = "IdConflictError") => pc \in ParserPlaces
       /\ (pc = "from_locus_tags" /\ todo = {}) =>
              AllUsed /\ raised' = "" /\ pc' \in {"write", "exit"}]_vars

\* The four phases are over for inputs of all three streams, the last phase
\* emitted the final record, and the checks let the records through.
C25_Witness ==
    /\ pc = "write"
    /\ cursor = 1
    /\ Len(refseq_ids) = 2
    /\ Len(uniprot_ids) = 2
    /\ Len(kegg_ids) = 1
    /\ kegg_accession_set # {}
    /\ Cardinality(locus_tag_set) = 2
    /\ records[Len(records)].uniprot_accession = None
    /\ records[Len(records)].refseq_locus_tag = R1
    /\ records[Len(records)].locus_tag = L2
    /\ AllUsed

\* The rows of the annotation stream, as parse_refseq reads them.
AnnotationRows ==
    LET rows == parse_tsv(refseq_ids, RefseqSchema)
    IN  [j \in DOMAIN rows |-> RefseqGenericRow(rows[j])]

\* The annotation stream has been parsed without an exception.
AnnotationParsed == pc \in {"parse_kegg", "kegg_row", "generate_id_map", "write"} \/ PhaseOf(pc) \in 1..4

\* C26: after the annotation stream is parsed, the annotation map holds for
\* every annotation locus tag exactly the locus-tag list of its own row, and
\* the inverse that generate_id_map builds has as keys exactly the locus tags
\* that annotation rows list, each mapped to an annotation locus tag whose
\* row lists it.
C26_AnnotationMapAndInverse ==
    LET rows == AnnotationRows
        listed == UNION {Range(OrEmpty(rows[j].locus_tag)) : j \in DOMAIN rows}
    IN  /\ AnnotationParsed =>
               \A j \in DOMAIN rows :
                   /\ DictHas(refseq_locus_tag_to_locus_tag, rows[j].refseq_locus_tag.str)
                   /\ DictAt(refseq_locus_tag_to_locus_tag, rows[j].refseq_locus_tag.str)
                          = ListCell(OrEmpty(rows[j].locus_tag))
        /\ (PhaseOf(pc) \in 1..4 \/ pc = "write") =>
               /\ Range(DictKeys(locus_tag_to_refseq_locus_tag)) = listed
               /\ \A i \in DOMAIN locus_tag_to_refseq_locus_tag :
                      \E j \in DOMAIN rows :
                          /\ rows[j].refseq_locus_tag.str = locus_tag_to_refseq_locus_tag[i].v
                          /\ InList(locus_tag_to_refseq_locus_tag[i].k, OrEmpty(rows[j].locus_tag))

\* C20: when the three streams have been parsed without an exception, the
\* map between locus tags and pathway accessions is symmetric: a key bound
\* to a non-null value is the value to which that value is bound, whether
\* the key is a tag and the value an accession or the other way round.
C20_MapSymmetric ==
    pc = "generate_id_map" =>
        \A j \in DOMAIN locus_tag_to_kegg_accession :
            LET e == locus_tag_to_kegg_accession[j]
            IN  Truthy(e.v) => DictGet(locus_tag_to_kegg_accession, e.v, None) = e.k


(***************************************************************************)
(* Properties of the graph build (specification SpecGraph).                *)
(***************************************************************************)
\* The ordered pair of node ids of a relationship.
IdPair(r) == <<NodeId(r.source_node), NodeId(r.target_node)>>

\* C8: the edge set never holds two Relationships of one ordered pair of node
\* ids, and a Relationship once inserted stays as it is: its origin,
\* directedness and level are not replaced by a later discovery of the pair.
C8_FirstDiscoveredWins ==
    [][/\ \A r \in relationships : r \in relationships'
       /\ \A a, b \in relationships' : IdPair(a) = IdPair(b) => a = b]_vars

\* A -> B was found in the directed source at level 1; the interaction source
\* offered the pair at level 1 and the directed source again at level 3.
C8_Witness ==
    /\ pc = "exit"
    /\ raised = ""
    /\ depth = 3
    /\ id_list = <<UA>>
    /\ id_mapper = PlainStore.id_mapper
    /\ kegg_relations = <<KeggRelation("A", "B"), KeggRelation("B", "A")>>
    /\ string_interactions = <<StringInteraction(RA, RB, 401)>>
    /\ \E r \in relationships :
           /\ IdPair(r) = <<<<"L", "A">>, <<"L", "B">>>>
           /\ r.source = "kegg"
           /\ r.directed
           /\ r.neighborhood_level = 1

\* Two nodes of one entity: the same UniProt accession.
SameEntity(m, n) == Truthy(m.uniprot_accession) /\ m.uniprot_accession = n.uniprot_accession

\* C9: with data in the interaction source only, the edge set holds one
\* relationship per unordered pair of entities: never an edge from A to B
\* together with one from B to A (or a second one from A to B), whichever
\* identifier the nodes were resolved from.
C9_OneEdgePerUnorderedPair ==
    kegg_relations = <<>> =>
        \A a, b \in relationships :
            a # b =>
                /\ ~(SameEntity(a.source_node, b.target_node) /\ SameEntity(a.target_node, b.source_node))
                /\ ~(SameEntity(a.source_node, b.source_node) /\ SameEntity(a.target_node, b.target_node))

Min(a, b) == IF a <= b THEN a ELSE b

\* What the result records of an edge.
Edge(r) == <<NodeId(r.source_node), NodeId(r.target_node), r.directed, r.source, r.neighborhood_level>>

\* The id of the i-th node of the chain A -> B -> C -> D seeded with A's
\* UniProt accession.
ChainId(i) == NodeId(build_node(IF i = 0 THEN UA ELSE Kegg(Entities[i + 1])).node)

\* The directed source holds the chain's first k relations and nothing else,
\* the interaction source nothing, and the build seeded with A has returned.
ChainBuilt(k) ==
    /\ pc = "exit"
    /\ raised = ""
    /\ id_list = <<UA>>
    /\ string_interactions = <<>>
    /\ kegg_relations = SubSeq(KeggRelationRows, 1, k)

\* C10: on the chain n0 -> ... -> nk of the directed source, seeded with n0,
\* a build of depth d returns exactly the min(d, k) edges (n(i-1), n(i)),
\* each directed, from the directed source and of level i.
C10_ChainEdgesByDepth ==
    \A k \in 0..(Len(Entities) - 1) :
        ChainBuilt(k) =>
            /\ Cardinality(relationships) = Min(depth, k)
            /\ {Edge(r) : r \in relationships} =
                   {<<ChainId(i - 1), ChainId(i), TRUE, "kegg", i>> : i \in 1..Min(depth, k)}

\* The chain of three relations built to depth 3.
C10_Witness ==
    /\ ChainBuilt(3)
    /\ depth = 3
    /\ Cardinality(relationships) = 3

\* build_graph.py, setup_config: the range checked for --string-threshold.
MinThreshold == 0

MaxThreshold == 1000

\* Some row of the interaction source joins a tag of m with a tag of n (in
\* either column order) with a score above the threshold of the build.
Interacting(m, n) ==
    \E j \in DOMAIN string_interactions :
        LET row == string_interactions[j]
        IN  /\ row.combined_score > string_threshold
            /\ \/ InList(row.protein_a, m.refseq_locus_tag) /\ InList(row.protein_b, n.refseq_locus_tag)
               \/ InList(row.protein_b, m.refseq_locus_tag) /\ InList(row.protein_a, n.refseq_locus_tag)

\* The lookup of a threshold gives a row's partner exactly when some row of
\* the same two tags scores above the threshold.
LookupStrictAt(threshold) ==
    \A j \in DOMAIN string_interactions :
        LET row == string_interactions[j]
        IN  InList(row.protein_b, get_string_targets(row.protein_a, threshold))
                <=> \E i \in DOMAIN string_interactions :
                        /\ string_interactions[i].protein_a \in {row.protein_a, row.protein_b}
                        /\ string_interactions[i].protein_b \in {row.protein_a, row.protein_b}
                        /\ string_interactions[i].combined_score > threshold

\* C11: the interaction threshold is strict. An edge from the interaction
\* source always rests on a row scoring above the threshold (a row scoring
\* exactly the threshold produces none); a row scoring threshold + 1 that
\* names a seed's tag and a partner that the store resolves always gives an
\* edge between the seed and its partner in a finished build of depth 1 or
\* more; and the lookup is strict for every threshold of 0..1000.
C11_StrictThreshold ==
    /\ \A r \in relationships :
           r.source = "string" =>
               Interacting(r.source_node, r.target_node)
    /\ (pc = "exit" /\ raised = "" /\ depth >= 1) =>
           \A s \in Range(id_list), j \in DOMAIN string_interactions :
               LET seed == build_node(s)
                   row == string_interactions[j]
                   partner == IF InList(row.protein_a, seed.node.refseq_locus_tag)
                              THEN row.protein_b ELSE row.protein_a
               IN  (/\ seed.found
                    /\ build_node(partner).found
                    /\ row.combined_score = string_threshold + 1
                    /\ \/ InList(row.protein_a, seed.node.refseq_locus_tag)
                       \/ InList(row.protein_b, seed.node.refseq_locus_tag))
                   => \E r \in relationships :
                          \/ /\ r.source_node.refseq_locus_tag = seed.node.refseq_locus_tag
                             /\ InList(partner, r.target_node.refseq_locus_tag)
                          \/ /\ r.target_node.refseq_locus_tag = seed.node.refseq_locus_tag
                             /\ InList(partner, r.source_node.refseq_locus_tag)
    /\ (pc = "build_nodes" /\ id_list = <<>> /\ depth = 0 /\ kegg_relations = <<>>) =>
           \A threshold \in MinThreshold..MaxThreshold : LookupStrictAt(threshold)

\* Seeded with B at threshold 400: the row (RA, RB, 401) gave the edge B - A,
\* the row (RB, RC, 400) gave none.
C11_Witness ==
    /\ pc = "exit"
    /\ raised = ""
    /\ id_list = <<RB>>
    /\ string_threshold = 400
    /\ kegg_relations = <<>>
    /\ string_interactions = <<StringInteraction(RA, RB, 401), StringInteraction(RB, RC, 400)>>
    /\ Cardinality(relationships) = 1
    /\ \E r \in relationships : r.source = "string" /\ r.target_node.refseq_locus_tag = <<RA>>

\* C12: a build never aborts because the resolution of a target failed: when
\* every seed resolves without an exception, run_build_graph raises nothing
\* and returns an edge set.
C12_TargetFailureNeverAborts ==
    (\A j \in DOMAIN id_list : build_node(id_list[j]).err = "") => raised = ""

\* No row of the store holds the id in any of its five columns.
Unmatched(id) ==
    \A j \in DOMAIN id_mapper :
        id \notin {id_mapper[j].uniprot_accession, id_mapper[j].refseq_locus_tag,
                   id_mapper[j].locus_tag, id_mapper[j].kegg_accession,
                   id_mapper[j].refseq_protein_id}

RECURSIVE Resolved(_)
\* The nodes of the ids of a list, in the list's order, without the ids that
\* give no node.
Resolved(ids) ==
    IF ids = <<>> THEN <<>>
    ELSE (IF build_node(Head(ids)).found THEN <<build_node(Head(ids)).node>> ELSE <<>>)
             \o Resolved(Tail(ids))

\* C13: a seed that matches no row of the store is skipped without an error
\* and without an effect: its iteration of the loop over the seeds changes
\* nothing but the position in the list, and the first level is entered with
\* the frontier of the list without such seeds, so the build goes on exactly
\* as the build of that list.
C13_UnmatchedSeedSkipped ==
    [][/\ (/\ pc = "build_nodes"
           /\ cursor <= Len(id_list)
           /\ Unmatched(id_list[cursor]))
          => (/\ raised' = ""
              /\ pc' = pc
              /\ cursor' = cursor + 1
              /\ query_nodes' = query_nodes
              /\ relationships' = relationships
              /\ neighborhood_level' = neighborhood_level)
       /\ ((pc = "build_nodes" /\ pc' \in {"add_kegg", "exit"} /\ raised' = "")
              => query_nodes' = Resolved(SelectSeq(id_list, LAMBDA id : ~Unmatched(id))))]_vars

\* A build seeded with RPZ, which PlainStore does not hold, and then with the
\* accession of A has returned the edge A -> B.
C13_Witness ==
    /\ pc = "exit"
    /\ raised = ""
    /\ id_mapper = PlainStore.id_mapper
    /\ id_list = <<RPZ, UA>>
    /\ kegg_relations = <<KeggRelation("A", "B")>>
    /\ {IdPair(r) : r \in relationships} = {<<<<"L", "A">>, <<"L", "B">>>>}

\* C17: the frontier that a level after the first expands is exactly the set
\* of the targets of the edges discovered at the level before: a seed or a
\* target of an earlier level is expanded again only as the target of an
\* edge of the level just completed.
C17_FrontierIsLastLevelTargets ==
    (pc \in {"add_kegg", "add_string"} /\ neighborhood_level >= 2) =>
        Range(query_nodes) =
            {r.target_node : r \in {e \in relationships :
                                       e.neighborhood_level = neighborhood_level - 1}}

\* The rows of the store that hold the id in one of the five columns, in the
\* store's order.
MatchingRows(id) ==
    SelectSeq(id_mapper, LAMBDA row :
        id \in {row.uniprot_accession, row.refseq_locus_tag, row.locus_tag,
                row.kegg_accession, row.refseq_protein_id})

\* The non-null values of a column of the rows.
ColumnValues(rows, column) == {rows[j][column] : j \in DOMAIN rows} \ {None}

\* The row where a value of a column is first seen.
FirstRow(rows, column, x) ==
    CHOOSE j \in DOMAIN rows :
        rows[j][column] = x /\ \A h \in 1..(j - 1) : rows[h][column] # x

\* The list holds each non-null value of the column once, in the order in
\* which the rows first show the values.
UnionInRowOrder(list, rows, column) ==
    /\ Range(list) = ColumnValues(rows, column)
    /\ Len(list) = Cardinality(ColumnValues(rows, column))
    /\ \A i, j \in DOMAIN list :
           i < j => FirstRow(rows, column, list[i]) < FirstRow(rows, column, list[j])

\* build_node of the id is as the claim says.
MergedAsClaimed(id) ==
    LET rows == MatchingRows(id)
        accessions == ColumnValues(rows, "uniprot_accession")
        b == build_node(id)
    IN  /\ b.err # "" <=> Cardinality(accessions) >= 2
        /\ b.err = "" =>
               /\ UnionInRowOrder(b.node.refseq_locus_tag, rows, "refseq_locus_tag")
               /\ UnionInRowOrder(b.node.locus_tag, rows, "locus_tag")
               /\ UnionInRowOrder(b.node.kegg_accession, rows, "kegg_accession")
               /\ IF accessions = {} THEN b.node.uniprot_accession = None
                  ELSE b.node.uniprot_accession \in accessions
               /\ ~b.found <=>
                      /\ accessions = {}
                      /\ ColumnValues(rows, "refseq_locus_tag") = {}
                      /\ ColumnValues(rows, "locus_tag") = {}
                      /\ ColumnValues(rows, "kegg_accession") = {}

\* The ids that the step the build is at resolves with build_node: the seed
\* of the iteration, or the targets of the node of the iteration.
ResolvedNext ==
    IF pc = "build_nodes" /\ cursor <= Len(id_list) THEN {id_list[cursor]}
    ELSE IF pc = "add_kegg" /\ cursor <= Len(query_nodes)
    THEN UNION {Range(get_kegg_targets(kacc)) :
                    kacc \in Range(query_nodes[cursor].kegg_accession)}
    ELSE IF pc = "add_string" /\ cursor <= Len(query_nodes)
    THEN UNION {Range(get_string_targets(rlt, string_threshold)) :
                    rlt \in Range(query_nodes[cursor].refseq_locus_tag)}
    ELSE {}

\* C18: for every id that a build resolves, build_node merges all the rows
\* holding the id in any of the five columns into one node whose RefSeq
\* locus tags, locus tags and pathway accessions are the duplicate-free
\* unions of the rows' non-null values in row order; it raises exactly when
\* the rows carry two different non-null UniProt accessions, and returns no
\* node exactly when the merged node has no accession and three empty lists.
C18_MergedNode ==
    \A id \in ResolvedNext : MergedAsClaimed(id)

\* The seed RB was resolved from the two rows of B in ConflictStore, which
\* repeat its RefSeq locus tag and pathway accession.
C18_Witness ==
    /\ pc = "add_kegg"
    /\ id_mapper = ConflictStore.id_mapper
    /\ id_list = <<RB>>
    /\ Len(query_nodes) = 1
    /\ query_nodes[1].refseq_locus_tag = <<RB>>
    /\ query_nodes[1].locus_tag = <<(<<"L", "B">>), (<<"M", "B">>)>>
    /\ query_nodes[1].kegg_accession = <<Kegg("B")>>


\* The two nodes have no identifier in common, so no store row went into both.
SharesNoIdentifier(m, n) ==
    /\ ~(Truthy(m.uniprot_accession) /\ m.uniprot_accession = n.uniprot_accession)
    /\ Range(m.refseq_locus_tag) \cap Range(n.refseq_locus_tag) = {}
    /\ Range(m.locus_tag) \cap Range(n.locus_tag) = {}
    /\ Range(m.kegg_accession) \cap Range(n.kegg_accession) = {}

\* The nodes that build_node has returned to run_build_graph and that it holds.
NodesHeld ==
    Range(query_nodes) \cup {r.source_node : r \in relationships}
                       \cup {r.target_node : r \in relationships}

\* C27: two nodes that build_node built from disjoint sets of store rows
\* (entities sharing no identifier) have different ids, whatever kind of
\* node they are, nodes that have only pathway accessions included.
C27_DistinctEntitiesDistinctIds ==
    \A m, n \in NodesHeld : SharesNoIdentifier(m, n) => NodeId(m) # NodeId(n)

\* The identifiers of a store row.
RowIds(row) ==
    {row.uniprot_accession, row.refseq_locus_tag, row.locus_tag, row.kegg_accession} \ {None}

\* The seeds have just been resolved: query_nodes holds their nodes.
SeedsResolved == pc = "add_kegg" /\ neighborhood_level = 1 /\ cursor = 1

\* C28: the id of the node of an entity does not depend on the identifier it
\* was resolved from: the node that run_build_graph resolved for a seed has
\* the id of the node that build_node builds for any identifier that is in
\* one store row with the seed.
C28_IdIndependentOfIdentifier ==
    SeedsResolved =>
        \A j \in DOMAIN id_mapper :
            \A s \in RowIds(id_mapper[j]) \cap Range(id_list) :
                \A y \in RowIds(id_mapper[j]) :
                    build_node(y).err = "" =>
                        \E i \in DOMAIN query_nodes :
                            NodeId(query_nodes[i]) = NodeId(build_node(y).node)

RECURSIVE SeedNodes(_, _)
\* run_build_graph, lines 248-254: the nodes of the ids that the store
\* resolves, in the order of id_list; a is [nodes, err].
SeedNodes(a, ids) ==
    IF ids = <<>> \/ a.err # "" THEN a
    ELSE LET b == build_node(Head(ids))
         IN  SeedNodes(IF b.err # "" THEN [a EXCEPT !.err = b.err]
                       ELSE IF b.found THEN [a EXCEPT !.nodes = Append(@, b.node)]
                       ELSE a,
                       Tail(ids))

RECURSIVE ExpandAll(_, _, _, _)
\* One of the two loops over query_nodes of lines 260-266; a is [rels, err].
ExpandAll(a, nodes, level, source) ==
    IF nodes = <<>> \/ a.err # "" THEN a
    ELSE ExpandAll(IF source = "kegg"
                   THEN add_kegg_relationships(Head(nodes), a.rels, level)
                   ELSE add_string_relationships(Head(nodes), string_threshold, a.rels, level),
                   Tail(nodes), level, source)

\* Line 268: the lists that query_nodes can be after a level that ended with rels.
Frontiers(rels) == {[j \in DOMAIN o |-> o[j].target_node] : o \in Orders(rels)}

RECURSIVE Outcomes(_)
\* The [rels, err] that run_build_graph can have reached when k levels are
\* over, in any order of iteration of the edge set.
Outcomes(k) ==
    LET seeds == SeedNodes([nodes |-> <<>>, err |-> ""], id_list)
    IN  IF k = 0 THEN {[rels |-> {}, err |-> seeds.err]}
        ELSE UNION {IF a.err # "" THEN {a}
                    ELSE {ExpandAll(ExpandAll(a, q, k, "kegg"), q, k, "string") :
                              q \in IF k = 1 THEN {seeds.nodes} ELSE Frontiers(a.rels)} :
                    a \in Outcomes(k - 1)}

\* The edge sets that run_build_graph can return for depth d.
Returned(d) == {a.rels : a \in {b \in Outcomes(d) : b.err = ""}}

\* C29: on one store, seed list and threshold, every edge that
\* run_build_graph returns for the depth before is in the result for this
\* depth, with the same origin, directedness and level; depth 0 returns the
\* empty set.
C29_MonotoneInDepth ==
    (pc = "exit" /\ raised = "") =>
        /\ depth = 0 => relationships = {}
        /\ depth > 0 => \A before \in Returned(depth - 1) : \A r \in before : r \in relationships

\* One relation hop leads from store row i to store row j: a pathway
\* relation from the accession of i to that of j, or an interaction above
\* the threshold between their annotation locus tags, in either direction.
RelationHop(i, j) ==
    \/ \E rel \in Range(kegg_relations) :
           /\ rel.source = id_mapper[i].kegg_accession
           /\ rel.target = id_mapper[j].kegg_accession
    \/ \E row \in Range(string_interactions) :
           /\ row.combined_score > string_threshold
           /\ {row.protein_a, row.protein_b}
                  = {id_mapper[i].refseq_locus_tag, id_mapper[j].refseq_locus_tag}

\* The store rows that a seed names.
SeedRows == {j \in DOMAIN id_mapper : RowIds(id_mapper[j]) \cap Range(id_list) # {}}

RECURSIVE RowsWithin(_)
\* The store rows at most k relation hops away from a seed.
RowsWithin(k) ==
    IF k = 0 THEN SeedRows
    ELSE LET near == RowsWithin(k - 1)
         IN  near \cup {j \in DOMAIN id_mapper : \E i \in near : RelationHop(i, j)}

\* The store rows of the entity of a node: those that hold one of its identifiers.
RowsFor(node) ==
    {j \in DOMAIN id_mapper :
        RowIds(id_mapper[j]) \cap ({node.uniprot_accession} \cup Range(node.refseq_locus_tag)
            \cup Range(node.locus_tag) \cup Range(node.kegg_accession)) # {}}

\* C30: every edge that run_build_graph returns records a level between 1 and
\* the requested depth, and the level is one plus the smallest number of
\* relation hops by which the source node of the edge is reached from a seed.
C30_LevelIsHopsPlusOne ==
    (pc = "exit" /\ raised = "") =>
        \A r \in relationships :
            /\ r.neighborhood_level \in 1..depth
            /\ RowsFor(r.source_node) \cap RowsWithin(r.neighborhood_level - 1) # {}
            /\ \A k \in 0..(r.neighborhood_level - 2) :
                   RowsFor(r.source_node) \cap RowsWithin(k) = {}

(***************************************************************************)
(* Properties of the reweighting pass (specification SpecWeights).         *)
(***************************************************************************)
\* The values the expression source holds for the two conditions and any
\* locus tag or RefSeq locus tag of the node.
ValuesOf(node) ==
    {row.log2_fold_change : row \in
        {t \in transcriptomics :
            /\ t.condition_a = condition_a
            /\ t.condition_b = condition_b
            /\ InList(t.experimental_id, node.locus_tag \o node.refseq_locus_tag)}}

\* The weight is a value of the node's of the largest magnitude, with its
\* sign; it is None only when there is no value.
LargestOf(node) ==
    IF ValuesOf(node) = {} THEN node.weight.is_none
    ELSE /\ ~node.weight.is_none
         /\ node.weight.value \in ValuesOf(node)
         /\ \A v \in ValuesOf(node) : Abs(v) <= Abs(node.weight.value)

\* C14: after a transcriptomics reweighting that succeeded, every endpoint of
\* every edge has as weight the fold change of the largest absolute value,
\* sign kept, among the values held for its locus tags and RefSeq locus
\* tags, negative and zero values included, and None only when no value is
\* held for any of its tags.
C14_WeightIsLargestMagnitude ==
    (pc = "exit" /\ raised = "" /\ experiment_type = "transcriptomics") =>
        \A r \in relationships : LargestOf(r.source_node) /\ LargestOf(r.target_node)

\* The condition is registered for the experiment type of the call.
Registered(condition) ==
    ConditionRow(condition, experiment_type) \in experimental_condition

\* C15: when condition_a or condition_b is not registered for the
\* experiment type, adjust_weights_with_expression_data raises and no node
\* weight is ever assigned: both conditions are validated before the first
\* assignment.
C15_InvalidConditionRaisesUntouched ==
    (~Registered(condition_a) \/ ~Registered(condition_b)) =>
        /\ pc = "adjust_weights" \/ (pc = "exit" /\ raised = "ValueError")
        /\ \A r \in relationships :
               r.source_node.weight.is_none /\ r.target_node.weight.is_none

\* The second condition only is unregistered; the graph has edges whose
\* nodes the expression source holds values for; the call has raised.
C15_Witness ==
    /\ pc = "exit"
    /\ raised = "ValueError"
    /\ Registered(condition_a)
    /\ ~Registered(condition_b)
    /\ experiment_type = "transcriptomics"
    /\ \E r \in relationships : ValuesOf(r.source_node) # {}

====
